---------------------------- MODULE Spec2Model ----------------------------
(***************************************************************************)
(* The terminal session / group state machine of vscode-bootty.            *)
(*                                                                         *)
(*   mgr        the TerminalManager of src/src/terminal-manager.ts        *)
(*              (extension host), with the workspaceState it saves to      *)
(*   toWebview  the messages posted through the panel provider and not     *)
(*              yet handled by the panel webview (FIFO)                    *)
(*   wv         the panel webview script (src/unnamed/part_005) and its    *)
(*              TerminalList (src/src/webview/terminal-list.ts, the        *)
(*              second, multi-select version of the class)                 *)
(*   toManager  the messages posted by the webview and not yet handled     *)
(*              by the manager (FIFO)                                      *)
(*   provider   the panel provider of src/src/panel-view-provider.ts on    *)
(*              its own: its view, the view's visibility, _isReady and     *)
(*              _messageQueue, with messages named by their post number    *)
(*   fileCache  a cache made by createFileCache (src/unnamed/part_004)     *)
(*                                                                         *)
(* In the runs of the manager and the display the panel stays visible:     *)
(* isReady is the provider's _isReady and toWebview holds its queue and    *)
(* what the page has not handled yet.  Hiding and showing the panel are    *)
(* the subject of SpecProvider, the cache that of SpecCache.               *)
(*                                                                         *)
(* Session and group ids are the values of createTerminalId(): fresh       *)
(* tokens, modelled by a counter.  Only panel terminals are modelled       *)
(* (location "panel"); titles, icons and colours are left out: no          *)
(* operation on the order list, the group table or the selection reads     *)
(* them.                                                                   *)
(***************************************************************************)
EXTENDS Integers, Sequences, FiniteSets, TLC

VARIABLES mgr, toWebview, wv, toManager, isReady, ops, hist, provider, fileCache

vars == <<mgr, toWebview, wv, toManager, isReady, ops, hist, provider, fileCache>>

-----------------------------------------------------------------------------
(* Bounds of the model.                                                    *)

\* sessions in the snapshot a run starts from
MaxPersisted == 3
\* user and environment events of one run
MaxOps == 2
\* activations whose animation-frame callback may be pending at once
MaxRaf == 2
\* user events of one run of SpecGrouping
MaxGroupingOps == 3

\* the user events of a run of SpecLife
MaxLifeOps == 1

\* the chunks the processes of a run deliver
MaxChunks == 3

\* the user events of a run of SpecReopen
MaxReopenOps == 2

\* the messages posted through the provider in a run of SpecProvider
MaxPosts == 8

\* the largest capacity of a file cache, and the last tick of the clock, in a
\* run of SpecCache
MaxCacheSize == 2
MaxTime == 2

\* ttlMs of the caches of SpecCache, in ticks of its clock
CacheTtl == 1

-----------------------------------------------------------------------------
(* Generic helpers: JavaScript arrays and Maps.                            *)

NULL == 0

\* Array.prototype.indexOf, 1-based; 0 when absent
IndexOf(s, x) ==
  IF \E i \in 1..Len(s) : s[i] = x
    THEN CHOOSE i \in 1..Len(s) : s[i] = x /\ \A j \in 1..(i-1) : s[j] # x
    ELSE 0

Contains(s, x) == \E i \in 1..Len(s) : s[i] = x

Range(s) == {s[i] : i \in 1..Len(s)}

\* s.splice(indexOf(x), 1) guarded by indexOf(x) >= 0: the first occurrence only
RemoveFirst(s, x) ==
  LET i == IndexOf(s, x)
  IN  IF i = 0 THEN s ELSE SubSeq(s, 1, i-1) \o SubSeq(s, i+1, Len(s))

\* s.filter(y => !set.has(y))
Without(s, set) == SelectSeq(s, LAMBDA y : y \notin set)

\* s.filter(y => set.has(y))
Only(s, set) == SelectSeq(s, LAMBDA y : y \in set)

\* s.splice(k, 0, ...xs) for a 0-based k (clamped to the length, as splice does)
SpliceIn(s, k, xs) ==
  LET kk == IF k > Len(s) THEN Len(s) ELSE k
  IN  SubSeq(s, 1, kk) \o xs \o SubSeq(s, kk+1, Len(s))

\* the first occurrence of every element
Dedup(s) == SelectSeq([i \in 1..Len(s) |-> IF IndexOf(s, s[i]) = i THEN s[i] ELSE NULL],
                      LAMBDA y : y # NULL)

EmptyMap == [x \in {} |-> NULL]

MapPut(f, k, v) == [x \in (DOMAIN f) \cup {k} |-> IF x = k THEN v ELSE f[x]]

MapDel(f, k) == [x \in (DOMAIN f) \ {k} |-> f[x]]

MapDelAll(f, ks) == [x \in (DOMAIN f) \ ks |-> f[x]]

\* Map.get, NULL for undefined
MapGet(f, k) == IF k \in DOMAIN f THEN f[k] ELSE NULL

-----------------------------------------------------------------------------
(* Messages.  One record shape for both directions:                        *)
(*   type  the message type                                                *)
(*   id    terminalId                                                      *)
(*   g     groupId / targetGroupId / group.id                              *)
(*   ids   terminalIds / group.terminals                                   *)
(*   arg   makeActive (1/0) of add-tab, listWidth / width                  *)
(*   pos   insertAfter                                                     *)

Msg(type, id, g, ids, arg, pos) ==
  [type |-> type, id |-> id, g |-> g, ids |-> ids, arg |-> arg, pos |-> pos]

AddTab(id, makeActive, groupId, insertAfter) ==
  Msg("add-tab", id, groupId, <<>>, IF makeActive THEN 1 ELSE 0, insertAfter)

RemoveTab(id) == Msg("remove-tab", id, NULL, <<>>, 0, NULL)

ActivateTab(id) == Msg("activate-tab", id, NULL, <<>>, 0, NULL)

FocusTerminal == Msg("focus-terminal", NULL, NULL, <<>>, 0, NULL)

HydrateState(w) == Msg("hydrate-state", NULL, NULL, <<>>, w, NULL)

GroupCreated(g, members) == Msg("group-created", NULL, g, members, 0, NULL)

GroupDestroyed(g) == Msg("group-destroyed", NULL, g, <<>>, 0, NULL)

SplitTerminalMsg(newId, g, insertAfter) ==
  Msg("split-terminal", newId, g, <<>>, 0, insertAfter)

UnsplitTerminalMsg(id) == Msg("unsplit-terminal", id, NULL, <<>>, 0, NULL)

JoinTerminalMsg(id, g) == Msg("join-terminal", id, g, <<>>, 0, NULL)

ReorderTerminals(ids) == Msg("reorder-terminals", NULL, NULL, ids, 0, NULL)

-----------------------------------------------------------------------------
(* The manager: src/src/terminal-manager.ts.                               *)
(*                                                                         *)
(* A manager state c is a record of the class's fields:                    *)
(*   terminals          Map id -> instance; of an instance the ordinal     *)
(*                      (index), ready, dataQueue and readyTimeout are kept *)
(*   groups             Map groupId -> TerminalGroup, as the sequence of   *)
(*                      its values in insertion order                      *)
(*   terminalToGroup, terminalOrder, activeTerminalId, listWidth,          *)
(*   persistedTerminals, usedIndices                                       *)
(*   workspaceState     the value stored under STATE_KEY                   *)
(*   nextId             the next value of createTerminalId()               *)
(*   ptyService         the processes spawned through the PtyService       *)
(*   exitTimers         the ids whose EXIT_CLOSE_DELAY_MS timer is pending  *)
(*   readyTimers        the ids whose READY_TIMEOUT_MS timer is pending     *)
(*   post               the messages handed to panelProvider.postMessage   *)
(*                      by the handler that is running                     *)

DefaultListWidth == 180

\* Map.get on the group table: the member list, <<>> when the group is absent
GroupIdx(gs, g) ==
  IF \E i \in 1..Len(gs) : gs[i].id = g
    THEN CHOOSE i \in 1..Len(gs) : gs[i].id = g
    ELSE 0

GroupHas(gs, g) == GroupIdx(gs, g) # 0

GroupGet(gs, g) == IF GroupHas(gs, g) THEN gs[GroupIdx(gs, g)].terminals ELSE <<>>

\* Map.set: an existing key keeps its place, a new key goes last
GroupSet(gs, g, members) ==
  IF GroupHas(gs, g)
    THEN [gs EXCEPT ![GroupIdx(gs, g)].terminals = members]
    ELSE Append(gs, [id |-> g, terminals |-> members])

GroupDelete(gs, g) == SelectSeq(gs, LAMBDA r : r.id # g)

GroupIds(gs) == {gs[i].id : i \in 1..Len(gs)}

Post(c, m) == [c EXCEPT !.post = Append(@, m)]

\* getNextIndex that numbers a session by the count of the allocated ordinals
getNextIndexByCount(used, index) == Cardinality(used) + 1

\* the loop of getNextIndex: index++ while usedIndices has index
RECURSIVE getNextIndexFrom(_, _)
getNextIndexFrom(used, index) ==
  IF index \in used THEN getNextIndexFrom(used, index + 1) ELSE index

\* getNextIndex: the value returned (the callers add it to usedIndices)
NextIndex(used) == getNextIndexFrom(used, 1)

\* releaseIndex
releaseIndex(used, index) == used \ {index}

\* The instance the create functions put into the terminals map: not ready, an
\* empty dataQueue, and (once the spawn has succeeded) the handle of the
\* readiness timer.  readyTimeout is "armed" from setTimeout on, "fired" once its
\* callback has run, "none" once clearTimeout has cleared the field.
NewInstance(index) ==
  [index |-> index, ready |-> FALSE, dataQueue |-> <<>>, readyTimeout |-> "armed"]

\* ptyService.spawn with a successful result: the service holds a process for
\* id.  Of a process the model keeps the number of kill calls made for it, the
\* number of chunks its data callback has delivered (a chunk is named by its
\* number), whether its exit callback has been delivered, and the number of
\* spawn calls made for the id.
ptySpawn(ptys, id) ==
  MapPut(ptys, id, [kills |-> 0, emitted |-> 0, exited |-> FALSE,
                    spawns |-> IF id \in DOMAIN ptys THEN ptys[id].spawns + 1 ELSE 1])

\* ptyService.kill(id)
ptyKill(ptys, id) ==
  IF id \in DOMAIN ptys THEN [ptys EXCEPT ![id].kills = @ + 1] ELSE ptys

\* getTerminalIds: the order list restricted to live panel terminals
getTerminalIds(c) == Only(c.terminalOrder, DOMAIN c.terminals)

\* The snapshot savePersistedState builds
Snapshot(c) ==
  LET live == Only(c.terminalOrder, DOMAIN c.terminals)
  IN  [terminals |-> [i \in 1..Len(live) |->
                        [id |-> live[i],
                         index |-> c.terminals[live[i]].index,
                         groupId |-> MapGet(c.terminalToGroup, live[i])]],
       groups |-> c.groups,
       activeTerminalId |-> c.activeTerminalId,
       listWidth |-> c.listWidth]

savePersistedState(c) == [c EXCEPT !.workspaceState = Snapshot(c)]

\* createPanelTerminal: a failed spawn leaves no session; a new session is
\* appended to the order list, selected, announced with makeActive and saved
createPanelTerminal(c, ok) ==
  LET id == c.nextId
      index == NextIndex(c.usedIndices)
      c1 == [c EXCEPT !.nextId = @ + 1]
  IN  IF ~ok THEN c1
      ELSE savePersistedState(
             [Post(c1, AddTab(id, TRUE, NULL, NULL)) EXCEPT
                !.terminals = MapPut(@, id, NewInstance(index)),
                !.ptyService = ptySpawn(@, id),
                !.readyTimers = @ \cup {id},
                !.usedIndices = @ \cup {index},
                !.terminalOrder = Append(@, id),
                !.activeTerminalId = id])

\* The group clean-up shared by destroyTerminal, handleUnsplitTerminal and
\* handleUnsplitTerminalWithoutReorder: drop id from its group, dissolve the
\* group at <= 1 members, else re-announce it
LeaveGroup(c, id) ==
  LET groupId == MapGet(c.terminalToGroup, id)
  IN  IF groupId = NULL THEN c
      ELSE IF ~GroupHas(c.groups, groupId)
        THEN [c EXCEPT !.terminalToGroup = MapDel(@, id)]
      ELSE
        LET rest == RemoveFirst(GroupGet(c.groups, groupId), id)
        IN  IF Len(rest) <= 1
              THEN [Post(c, GroupDestroyed(groupId)) EXCEPT
                      !.terminalToGroup = MapDelAll(@, Range(rest) \cup {id}),
                      !.groups = GroupDelete(@, groupId)]
              ELSE [Post(c, GroupCreated(groupId, rest)) EXCEPT
                      !.terminalToGroup = MapDel(@, id),
                      !.groups = GroupSet(@, groupId, rest)]

\* destroyTerminal that leaves the readiness timer pending
destroyTerminalKeepingTimer(c, id) ==
  IF id \notin DOMAIN c.terminals THEN c
  ELSE
    LET index == c.terminals[id].index
        c1 == [c EXCEPT !.terminals = MapDel(@, id),
                        !.usedIndices = releaseIndex(@, index),
                        !.terminalOrder = RemoveFirst(@, id),
                        !.ptyService = ptyKill(@, id)]
        c2 == LeaveGroup(c1, id)
        remaining == getTerminalIds(c2)
        c3 == IF c2.activeTerminalId = id
                THEN [c2 EXCEPT !.activeTerminalId =
                        IF Len(remaining) > 0 THEN remaining[Len(remaining)] ELSE NULL]
                ELSE c2
    IN  savePersistedState(Post(c3, RemoveTab(id)))

\* destroyTerminal that kills the process before it looks the id up
destroyTerminalKillingFirst(c, id) ==
  IF id \notin DOMAIN c.terminals THEN [c EXCEPT !.ptyService = ptyKill(@, id)]
  ELSE
    LET index == c.terminals[id].index
        c1 == [c EXCEPT !.terminals = MapDel(@, id),
                        !.usedIndices = releaseIndex(@, index),
                        !.terminalOrder = RemoveFirst(@, id),
                        !.readyTimers = @ \ {id},
                        !.ptyService = ptyKill(@, id)]
        c2 == LeaveGroup(c1, id)
        remaining == getTerminalIds(c2)
        c3 == IF c2.activeTerminalId = id
                THEN [c2 EXCEPT !.activeTerminalId =
                        IF Len(remaining) > 0 THEN remaining[Len(remaining)] ELSE NULL]
                ELSE c2
    IN  savePersistedState(Post(c3, RemoveTab(id)))

\* destroyTerminal: a no-op for an id the map does not hold; else the session
\* leaves the map, the order list and its group, its ordinal is released, its
\* process killed, remove-tab posted and the snapshot saved
destroyTerminal(c, id) ==
  IF id \notin DOMAIN c.terminals THEN c
  ELSE
    LET index == c.terminals[id].index
        c1 == [c EXCEPT !.terminals = MapDel(@, id),
                        !.usedIndices = releaseIndex(@, index),
                        !.terminalOrder = RemoveFirst(@, id),
                        !.readyTimers = @ \ {id},
                        !.ptyService = ptyKill(@, id)]
        c2 == LeaveGroup(c1, id)
        remaining == getTerminalIds(c2)
        c3 == IF c2.activeTerminalId = id
                THEN [c2 EXCEPT !.activeTerminalId =
                        IF Len(remaining) > 0 THEN remaining[Len(remaining)] ELSE NULL]
                ELSE c2
    IN  savePersistedState(Post(c3, RemoveTab(id)))

\* the cap of an instance's dataQueue (scaled down)
MAX_DATA_QUEUE_SIZE == 2

PtyData(id, data) == Msg("pty-data", id, NULL, <<>>, data, NULL)

PtyExitMsg(id) == Msg("pty-exit", id, NULL, <<>>, 0, NULL)

UpdateSettings(id) == Msg("update-settings", id, NULL, <<>>, 0, NULL)

UpdateTheme(id) == Msg("update-theme", id, NULL, <<>>, 0, NULL)

UpdateConfig == Msg("update-config", NULL, NULL, <<>>, 0, NULL)

\* postToTerminal for a panel terminal: dropped unless the instance is ready
postToTerminal(c, id, m) ==
  IF id \in DOMAIN c.terminals /\ c.terminals[id].ready THEN Post(c, m) ELSE c

\* the loop of handleTerminalReady over instance.dataQueue
RECURSIVE FlushFrom(_, _, _, _)
FlushFrom(c, id, queue, i) ==
  IF i > Len(queue) THEN c
  ELSE FlushFrom(postToTerminal(c, id, PtyData(id, queue[i])), id, queue, i + 1)

\* handleTerminalReady that returns before it clears the timer and marks the
\* instance ready
handleTerminalReadyReturningEarly(c, id) == c

\* handleTerminalReady that marks the instance ready only after the flush
handleTerminalReadyMarkingLate(c, id) ==
  IF id \notin DOMAIN c.terminals THEN c
  ELSE
    LET c1 == [c EXCEPT !.terminals[id].readyTimeout = "none",
                        !.readyTimers = @ \ {id}]
        c2 == postToTerminal(c1, id, UpdateSettings(id))
        c3 == postToTerminal(c2, id, UpdateTheme(id))
        c4 == postToTerminal(c3, id, UpdateConfig)
        c5 == FlushFrom(c4, id, c4.terminals[id].dataQueue, 1)
    IN  [c5 EXCEPT !.terminals[id].dataQueue = <<>>, !.terminals[id].ready = TRUE]

\* handleTerminalReady: clear the readiness timer, mark ready, send settings,
\* theme and config, flush the buffered chunks in order
handleTerminalReady(c, id) ==
  IF id \notin DOMAIN c.terminals THEN c
  ELSE
    LET c1 == [c EXCEPT !.terminals[id].readyTimeout = "none",
                        !.readyTimers = @ \ {id},
                        !.terminals[id].ready = TRUE]
        c2 == postToTerminal(c1, id, UpdateSettings(id))
        c3 == postToTerminal(c2, id, UpdateTheme(id))
        c4 == postToTerminal(c3, id, UpdateConfig)
        c5 == FlushFrom(c4, id, c4.terminals[id].dataQueue, 1)
    IN  [c5 EXCEPT !.terminals[id].dataQueue = <<>>]

\* handlePtyData that still buffers a chunk when the queue is at the cap
handlePtyDataOffByOne(c, id, data) ==
  IF id \notin DOMAIN c.terminals THEN c
  ELSE IF ~c.terminals[id].ready
    THEN IF Len(c.terminals[id].dataQueue) <= MAX_DATA_QUEUE_SIZE
           THEN [c EXCEPT !.terminals[id].dataQueue = Append(@, data)]
           ELSE c
    ELSE postToTerminal(c, id, PtyData(id, data))

\* handlePtyData, for a chunk that carries no OSC 7 or OSC 9 sequence: buffered
\* below the cap while the instance is not ready, dropped at the cap, posted
\* once it is ready
handlePtyData(c, id, data) ==
  IF id \notin DOMAIN c.terminals THEN c
  ELSE IF ~c.terminals[id].ready
    THEN IF Len(c.terminals[id].dataQueue) < MAX_DATA_QUEUE_SIZE
           THEN [c EXCEPT !.terminals[id].dataQueue = Append(@, data)]
           ELSE c
    ELSE postToTerminal(c, id, PtyData(id, data))

\* handlePtyExit: the exit notice, and the timer that destroys the session
\* after EXIT_CLOSE_DELAY_MS
handlePtyExit(c, id) ==
  IF id \notin DOMAIN c.terminals THEN c
  ELSE [postToTerminal(c, id, PtyExitMsg(id)) EXCEPT !.exitTimers = @ \cup {id}]

\* the callback of the timer handlePtyExit sets
exitCloseCallback(c, id) == destroyTerminal([c EXCEPT !.exitTimers = @ \ {id}], id)

handlePtyError(c, id) ==
  IF id \notin DOMAIN c.terminals THEN c ELSE destroyTerminal(c, id)

\* the callback of the readiness timer set for the instance of id; ready is
\* the ready flag of that instance, which the closure holds
readyTimeoutCallback(c, id, ready) ==
  LET c1 == [c EXCEPT !.readyTimers = @ \ {id},
                      !.terminals = IF id \in DOMAIN @
                                      THEN [@ EXCEPT ![id].readyTimeout = "fired"]
                                      ELSE @]
  IN  IF ~ready THEN destroyTerminal(c1, id) ELSE c1

\* createPanelTerminalForSplit; the result carries the new id in .newId (NULL on
\* a failed spawn)
createPanelTerminalForSplit(c, insertAfter, ok) ==
  LET id == c.nextId
      index == NextIndex(c.usedIndices)
      c1 == [c EXCEPT !.nextId = @ + 1]
      sourceIndex == IndexOf(c.terminalOrder, insertAfter)
  IN  IF ~ok THEN [c |-> c1, newId |-> NULL]
      ELSE [c |-> [Post(c1, AddTab(id, FALSE, NULL, insertAfter)) EXCEPT
                     !.terminals = MapPut(@, id, NewInstance(index)),
                     !.ptyService = ptySpawn(@, id),
                     !.readyTimers = @ \cup {id},
                     !.usedIndices = @ \cup {index},
                     !.terminalOrder =
                        IF sourceIndex > 0 THEN SpliceIn(@, sourceIndex, <<id>>)
                                           ELSE Append(@, id)],
            newId |-> id]

handleSplitTerminal(c, sourceTerminalId, ok) ==
  IF sourceTerminalId \notin DOMAIN c.terminals THEN c
  ELSE
    LET had == MapGet(c.terminalToGroup, sourceTerminalId)
        groupId == IF had # NULL THEN had ELSE c.nextId
        c1 == IF had # NULL THEN c
              ELSE [c EXCEPT !.nextId = @ + 1,
                             !.groups = GroupSet(@, groupId, <<sourceTerminalId>>),
                             !.terminalToGroup = MapPut(@, sourceTerminalId, groupId)]
        r == createPanelTerminalForSplit(c1, sourceTerminalId, ok)
    IN  IF r.newId = NULL THEN r.c
        ELSE
          LET members == GroupGet(r.c.groups, groupId)
              insertIndex == IndexOf(members, sourceTerminalId)
              members2 == SpliceIn(members, insertIndex, <<r.newId>>)
              c2 == [r.c EXCEPT !.groups = GroupSet(@, groupId, members2),
                                !.terminalToGroup = MapPut(@, r.newId, groupId)]
          IN  savePersistedState(
                Post(Post(c2, GroupCreated(groupId, members2)),
                     SplitTerminalMsg(r.newId, groupId, sourceTerminalId)))

\* The loop of handleGroupSelectedTerminals that takes each selected terminal
\* out of the group it is in
RECURSIVE UngroupEach(_, _, _)
UngroupEach(c, ids, i) ==
  IF i > Len(ids) THEN c
  ELSE
    LET id == ids[i]
        existing == MapGet(c.terminalToGroup, id)
        c1 == IF existing = NULL THEN c
              ELSE IF ~GroupHas(c.groups, existing)
                THEN [c EXCEPT !.terminalToGroup = MapDel(@, id)]
              ELSE
                LET rest == Without(GroupGet(c.groups, existing), {id})
                IN  IF Len(rest) <= 1
                      THEN [Post(c, GroupDestroyed(existing)) EXCEPT
                              !.terminalToGroup = MapDelAll(@, Range(rest) \cup {id}),
                              !.groups = GroupDelete(@, existing)]
                      ELSE [Post(c, GroupCreated(existing, rest)) EXCEPT
                              !.terminalToGroup = MapDel(@, id),
                              !.groups = GroupSet(@, existing, rest)]
    IN  UngroupEach(c1, ids, i + 1)

RECURSIVE MapPutAll(_, _, _)
MapPutAll(f, ks, v) ==
  IF ks = {} THEN f
  ELSE LET k == CHOOSE x \in ks : TRUE IN MapPutAll(MapPut(f, k, v), ks \ {k}, v)

handleGroupSelectedTerminals(c, terminalIds) ==
  LET validIds == Only(terminalIds, DOMAIN c.terminals)
  IN  IF Len(terminalIds) < 2 \/ Len(validIds) < 2 THEN c
      ELSE
        LET c1 == UngroupEach(c, validIds, 1)
            groupId == c1.nextId
            groupedSet == Range(validIds)
            firstIndex == IF \E i \in 1..Len(c1.terminalOrder) :
                                c1.terminalOrder[i] \in groupedSet
                            THEN CHOOSE i \in 1..Len(c1.terminalOrder) :
                                   /\ c1.terminalOrder[i] \in groupedSet
                                   /\ \A j \in 1..(i-1) : c1.terminalOrder[j] \notin groupedSet
                            ELSE 0
            c2 == [c1 EXCEPT
                     !.nextId = @ + 1,
                     !.groups = GroupSet(@, groupId, validIds),
                     !.terminalToGroup = MapPutAll(@, groupedSet, groupId),
                     !.terminalOrder =
                        IF firstIndex = 0 THEN @
                        ELSE SpliceIn(Without(@, groupedSet), firstIndex - 1, validIds)]
        IN  savePersistedState(Post(c2, GroupCreated(groupId, validIds)))

handleTerminalsReordered(c, terminalIds) ==
  savePersistedState([c EXCEPT !.terminalOrder = terminalIds])

handleGroupReordered(c, groupId, terminalIds) ==
  IF ~GroupHas(c.groups, groupId) THEN c
  ELSE
    LET set == Range(terminalIds)
        order == c.terminalOrder
        firstGroupIndex == IF \E i \in 1..Len(order) : order[i] \in set
                             THEN CHOOSE i \in 1..Len(order) :
                                    /\ order[i] \in set
                                    /\ \A j \in 1..(i-1) : order[j] \notin set
                             ELSE 0
        c1 == [c EXCEPT
                 !.groups = GroupSet(@, groupId, terminalIds),
                 !.terminalOrder =
                    IF firstGroupIndex = 0 THEN @
                    ELSE SpliceIn(Without(@, set), firstGroupIndex - 1, terminalIds)]
    IN  savePersistedState(Post(c1, GroupCreated(groupId, terminalIds)))

handleListWidthChanged(c, width) ==
  savePersistedState([c EXCEPT !.listWidth = width])

\* The repositioning of handleUnsplitTerminal: after the last remaining member
PlaceAfterGroup(order, terminalId, rest) ==
  LET o1 == RemoveFirst(order, terminalId)
  IN  IF Len(rest) = 0 THEN Append(o1, terminalId)
      ELSE LET k == IndexOf(o1, rest[Len(rest)])
           IN  IF k > 0 THEN SpliceIn(o1, k, <<terminalId>>)
                        ELSE Append(o1, terminalId)

handleUnsplitTerminal(c, terminalId) ==
  LET groupId == MapGet(c.terminalToGroup, terminalId)
  IN  IF groupId = NULL \/ ~GroupHas(c.groups, groupId) THEN c
      ELSE
        LET rest == RemoveFirst(GroupGet(c.groups, groupId), terminalId)
            c1 == [c EXCEPT !.terminalOrder = PlaceAfterGroup(@, terminalId, rest)]
            c2 == LeaveGroup(c1, terminalId)
            c3 == Post(c2, UnsplitTerminalMsg(terminalId))
        IN  savePersistedState(Post(c3, ReorderTerminals(c3.terminalOrder)))

handleUnsplitTerminalWithoutReorder(c, terminalId) ==
  LET groupId == MapGet(c.terminalToGroup, terminalId)
  IN  IF groupId = NULL \/ ~GroupHas(c.groups, groupId) THEN c
      ELSE Post(LeaveGroup(c, terminalId), UnsplitTerminalMsg(terminalId))

handleJoinTerminal(c, terminalId, targetGroupId) ==
  IF terminalId \notin DOMAIN c.terminals THEN c
  ELSE
    LET c1 == IF MapGet(c.terminalToGroup, terminalId) # NULL
                THEN handleUnsplitTerminalWithoutReorder(c, terminalId)
                ELSE c
    IN  IF ~GroupHas(c1.groups, targetGroupId) THEN c1
        ELSE
          LET before == GroupGet(c1.groups, targetGroupId)
              members == Append(before, terminalId)
              o1 == RemoveFirst(c1.terminalOrder, terminalId)
              \* terminals[length - 2] after the push; undefined for an empty group
              lastTargetMember == IF Len(before) > 0 THEN before[Len(before)] ELSE NULL
              k == IndexOf(o1, lastTargetMember)
              c2 == [c1 EXCEPT
                       !.groups = GroupSet(@, targetGroupId, members),
                       !.terminalToGroup = MapPut(@, terminalId, targetGroupId),
                       !.terminalOrder = IF k > 0 THEN SpliceIn(o1, k, <<terminalId>>)
                                                  ELSE Append(o1, terminalId)]
              c3 == Post(Post(c2, GroupCreated(targetGroupId, members)),
                         JoinTerminalMsg(terminalId, targetGroupId))
          IN  savePersistedState(Post(c3, ReorderTerminals(c3.terminalOrder)))

\* loadPersistedState that does not pre-populate usedIndices
loadPersistedStateWithoutReserving(state, firstId) ==
  [terminals |-> EmptyMap,
   groups |-> state.groups,
   terminalToGroup |-> EmptyMap,
   terminalOrder |-> <<>>,
   activeTerminalId |-> state.activeTerminalId,
   listWidth |-> state.listWidth,
   persistedTerminals |-> state.terminals,
   usedIndices |-> {},
   workspaceState |-> state,
   nextId |-> firstId,
   ptyService |-> EmptyMap,
   exitTimers |-> {},
   readyTimers |-> {},
   post |-> <<>>]

\* loadPersistedState, run by the constructor on the stored snapshot
loadPersistedState(state, firstId) ==
  [terminals |-> EmptyMap,
   groups |-> state.groups,
   terminalToGroup |-> EmptyMap,
   terminalOrder |-> <<>>,
   activeTerminalId |-> state.activeTerminalId,
   listWidth |-> state.listWidth,
   persistedTerminals |-> state.terminals,
   usedIndices |-> {state.terminals[i].index : i \in 1..Len(state.terminals)},
   workspaceState |-> state,
   nextId |-> firstId,
   ptyService |-> EmptyMap,
   exitTimers |-> {},
   readyTimers |-> {},
   post |-> <<>>]

\* createPanelTerminalForHydration keeping the ordinal of a failed spawn allocated
createPanelTerminalForHydrationKeepingIndex(c, persisted, ok) ==
  IF ~ok
    THEN [c |-> c, newId |-> NULL]
    ELSE [c |-> [Post(c, AddTab(persisted.id, FALSE, persisted.groupId, NULL)) EXCEPT
                   !.terminals = MapPut(@, persisted.id, NewInstance(persisted.index)),
                   !.ptyService = ptySpawn(@, persisted.id),
                   !.readyTimers = @ \cup {persisted.id},
                   !.terminalOrder = Append(@, persisted.id)],
          newId |-> persisted.id]

\* createPanelTerminalForHydration: re-create a persisted session under its
\* saved id and ordinal; a failed spawn releases the ordinal
createPanelTerminalForHydration(c, persisted, ok) ==
  IF ~ok
    THEN [c |-> [c EXCEPT !.usedIndices = releaseIndex(@, persisted.index)], newId |-> NULL]
    ELSE [c |-> [Post(c, AddTab(persisted.id, FALSE, persisted.groupId, NULL)) EXCEPT
                   !.terminals = MapPut(@, persisted.id, NewInstance(persisted.index)),
                   !.ptyService = ptySpawn(@, persisted.id),
                   !.readyTimers = @ \cup {persisted.id},
                   !.terminalOrder = Append(@, persisted.id)],
          newId |-> persisted.id]

\* The first loop of handlePanelReady, over persistedTerminals
RECURSIVE HydrateEach(_, _, _, _)
HydrateEach(c, list, oks, i) ==
  IF i > Len(list) THEN c
  ELSE
    LET r == createPanelTerminalForHydration(c, list[i], oks[i])
        c1 == IF r.newId # NULL /\ list[i].groupId # NULL
                THEN [r.c EXCEPT !.terminalToGroup = MapPut(@, r.newId, list[i].groupId)]
                ELSE r.c
    IN  HydrateEach(c1, list, oks, i + 1)

\* The second loop of handlePanelReady: one group-created per entry of the group table
RECURSIVE AnnounceGroups(_, _)
AnnounceGroups(c, i) ==
  IF i > Len(c.groups) THEN c
  ELSE AnnounceGroups(Post(c, GroupCreated(c.groups[i].id, c.groups[i].terminals)), i + 1)

\* handlePanelReady with the list of persisted terminals left in place
handlePanelReadyKeepingPersisted(c, oks, okDefault) ==
  LET savedActiveId == c.activeTerminalId
      c1 == Post(c, HydrateState(c.listWidth))
      c2 == HydrateEach(c1, c1.persistedTerminals, oks, 1)
      c3 == AnnounceGroups(c2, 1)
  IN  IF DOMAIN c3.terminals = {} THEN createPanelTerminal(c3, okDefault)
      ELSE IF savedActiveId # NULL /\ savedActiveId \in DOMAIN c3.terminals
        THEN Post(Post(c3, ActivateTab(savedActiveId)), FocusTerminal)
        ELSE c3

\* handlePanelReady; oks[i] is the spawn outcome of the i-th persisted terminal,
\* okDefault that of the auto-created terminal
handlePanelReady(c, oks, okDefault) ==
  LET savedActiveId == c.activeTerminalId
      c1 == Post(c, HydrateState(c.listWidth))
      c2 == HydrateEach(c1, c1.persistedTerminals, oks, 1)
      c3 == [AnnounceGroups(c2, 1) EXCEPT !.persistedTerminals = <<>>]
  IN  IF DOMAIN c3.terminals = {} THEN createPanelTerminal(c3, okDefault)
      ELSE IF savedActiveId # NULL /\ savedActiveId \in DOMAIN c3.terminals
        THEN Post(Post(c3, ActivateTab(savedActiveId)), FocusTerminal)
        ELSE c3

\* handlePanelMessage: the dispatch on message.type.  spawn holds the outcomes
\* of the spawnPty calls the handler makes: spawn.oks for the persisted
\* terminals of panel-ready, spawn.ok for the one new terminal of the others
handlePanelMessage(c, m, spawn) ==
  CASE m.type = "panel-ready" -> handlePanelReady(c, spawn.oks, spawn.ok)
    [] m.type = "terminal-ready" -> handleTerminalReady(c, m.id)
    [] m.type = "tab-activated" -> [c EXCEPT !.activeTerminalId = m.id]
    [] m.type = "tab-close-requested" -> destroyTerminal(c, m.id)
    [] m.type = "new-tab-requested" -> Post(createPanelTerminal(c, spawn.ok), FocusTerminal)
    [] m.type = "terminal-selected" ->
         savePersistedState([c EXCEPT !.activeTerminalId = m.id])
    [] m.type = "split-requested" -> handleSplitTerminal(c, m.id, spawn.ok)
    [] m.type = "unsplit-requested" -> handleUnsplitTerminal(c, m.id)
    [] m.type = "join-requested" -> handleJoinTerminal(c, m.id, m.g)
    [] m.type = "terminals-reordered" -> handleTerminalsReordered(c, m.ids)
    [] m.type = "group-reordered" -> handleGroupReordered(c, m.g, m.ids)
    [] m.type = "list-width-changed" -> handleListWidthChanged(c, m.arg)
    [] m.type = "group-selected-requested" -> handleGroupSelectedTerminals(c, m.ids)
    [] OTHER -> c

-----------------------------------------------------------------------------
(* The panel webview: src/unnamed/part_005 and its TerminalList.           *)
(*                                                                         *)
(* A webview state w is a record of                                        *)
(*   terminals         the keys of the terminals Map, in insertion order   *)
(*   groups            the groups Map as the sequence of its values; the   *)
(*                     TerminalList's state.groups holds the same objects  *)
(*                     in the same order (group-created stores msg.group   *)
(*                     in both), so one field stands for both              *)
(*   activeTerminalId  the script's activeTerminalId                       *)
(*   visible           the ids whose pane carries the class "active"       *)
(*   items, selectedTerminalIds, focusedTerminalId, listActiveId           *)
(*                     the TerminalList state (listActiveId is             *)
(*                     state.activeTerminalId)                             *)
(*   raf               the ids of the activations whose nested             *)
(*                     requestAnimationFrame callback has not run yet      *)
(*   out               the messages handed to vscode.postMessage by the    *)
(*                     handler that is running                             *)
(* lastSelectedId (read by shift-click only), the list width of the        *)
(* display and the terminal-ready / terminal-resize messages are left out. *)

Send(w, m) == [w EXCEPT !.out = Append(@, m)]

ToManager(type, id, g, ids, arg) == Msg(type, id, g, ids, arg, NULL)

\* items.findIndex(i => i.id === id), 1-based; 0 when absent
ItemIdx(items, id) ==
  IF \E i \in 1..Len(items) : items[i].id = id
    THEN CHOOSE i \in 1..Len(items) : items[i].id = id /\ \A j \in 1..(i-1) : items[j].id # id
    ELSE 0

\* items.find(i => i.id === id)?.groupId
ItemGroup(items, id) ==
  IF ItemIdx(items, id) = 0 THEN NULL ELSE items[ItemIdx(items, id)].groupId

ItemIds(items) == [i \in 1..Len(items) |-> items[i].id]

\* TerminalList.addTerminal
addTerminal(w, item, insertAfter) ==
  LET existingIndex == ItemIdx(w.items, item.id)
      afterIndex == ItemIdx(w.items, insertAfter)
  IN  [w EXCEPT !.items =
         IF existingIndex > 0 THEN [@ EXCEPT ![existingIndex] = item]
         ELSE IF insertAfter # NULL /\ afterIndex > 0 THEN SpliceIn(@, afterIndex, <<item>>)
         ELSE Append(@, item)]

\* TerminalList.removeTerminal
listRemoveTerminal(w, id) ==
  [w EXCEPT !.items = SelectSeq(@, LAMBDA it : it.id # id),
            !.selectedTerminalIds = @ \ {id},
            !.focusedTerminalId = IF @ = id THEN NULL ELSE @]

\* setSelected clearing the focus only when the selection changes
setSelectedIfChanged(w, id) ==
  [w EXCEPT !.selectedTerminalIds = IF id # NULL THEN {id} ELSE {},
            !.focusedTerminalId = IF w.selectedTerminalIds = {id} THEN @ ELSE NULL]

\* TerminalList.setSelected
setSelected(w, id) ==
  [w EXCEPT !.selectedTerminalIds = IF id # NULL THEN {id} ELSE {},
            !.focusedTerminalId = NULL]

\* TerminalList.setFocused
setFocused(w, id) == [w EXCEPT !.focusedTerminalId = id]

\* TerminalList.setActive
setActive(w, id) ==
  [w EXCEPT !.listActiveId = id,
            !.selectedTerminalIds = IF id # NULL THEN {id} ELSE @]

\* TerminalList.setTerminalGroup
setTerminalGroup(w, id, groupId) ==
  [w EXCEPT !.items = [i \in 1..Len(@) |->
                         IF @[i].id = id THEN [@[i] EXCEPT !.groupId = groupId] ELSE @[i]]]

\* group.terminals.map(tid => items.find(i => i.id === tid)).filter(defined)
RECURSIVE ItemsOf(_, _)
ItemsOf(items, ids) ==
  IF ids = <<>> THEN <<>>
  ELSE LET k == ItemIdx(items, Head(ids))
       IN  (IF k = 0 THEN <<>> ELSE <<items[k]>>) \o ItemsOf(items, Tail(ids))

\* TerminalList.updateGroup
updateGroup(w, groupId, members) ==
  LET set == Range(members)
      tagged == [i \in 1..Len(w.items) |->
                   IF w.items[i].id \in set
                     THEN [w.items[i] EXCEPT !.groupId = groupId] ELSE w.items[i]]
      inGroup == SelectSeq(tagged, LAMBDA it : it.id \in set)
      firstIndex == IF inGroup = <<>> THEN 0 ELSE ItemIdx(tagged, inGroup[1].id)
      beforeItems == SelectSeq(SubSeq(tagged, 1, firstIndex - 1), LAMBDA it : it.id \notin set)
      afterItems == SelectSeq(SubSeq(tagged, firstIndex, Len(tagged)), LAMBDA it : it.id \notin set)
  IN  [w EXCEPT !.groups = GroupSet(@, groupId, members),
                !.items = IF firstIndex = 0 THEN tagged
                          ELSE beforeItems \o ItemsOf(inGroup, members) \o afterItems]

\* TerminalList.removeGroup
removeGroup(w, groupId) ==
  [w EXCEPT !.groups = GroupDelete(@, groupId),
            !.items = [i \in 1..Len(@) |->
                         IF @[i].groupId = groupId THEN [@[i] EXCEPT !.groupId = NULL] ELSE @[i]]]

\* new Map(items.map(item => [item.id, item])).get(id): the last item of that id
LastItemOf(items, id) ==
  items[CHOOSE i \in 1..Len(items) :
          items[i].id = id /\ \A j \in (i+1)..Len(items) : items[j].id # id]

\* TerminalList.reorderItems
reorderItems(w, terminalIds) ==
  LET known == Only(terminalIds, Range(ItemIds(w.items)))
  IN  [w EXCEPT !.items = [i \in 1..Len(known) |-> LastItemOf(w.items, known[i])]]

\* getTerminalGroupId of the script: the first group listing the terminal
getTerminalGroupId(w, terminalId) ==
  IF \E i \in 1..Len(w.groups) : Contains(w.groups[i].terminals, terminalId)
    THEN w.groups[CHOOSE i \in 1..Len(w.groups) :
                    /\ Contains(w.groups[i].terminals, terminalId)
                    /\ \A j \in 1..(i-1) : ~Contains(w.groups[j].terminals, terminalId)].id
    ELSE NULL

getVisibleTerminalIds(w, selectedId) ==
  LET groupId == getTerminalGroupId(w, selectedId)
  IN  IF groupId # NULL THEN GroupGet(w.groups, groupId) ELSE <<selectedId>>

\* activateTerminal of the script; the nested requestAnimationFrame callback is
\* queued in raf
activateTerminal(w, id) ==
  IF ~Contains(w.terminals, id) THEN w
  ELSE [setActive(w, id) EXCEPT
          !.activeTerminalId = id,
          !.visible = Range(w.terminals) \cap Range(getVisibleTerminalIds(w, id)),
          !.raf = Append(@, id)]

\* The callback activateTerminal hands to requestAnimationFrame
activateCallback(w, id) ==
  Send(setFocused(w, id), ToManager("tab-activated", id, NULL, <<>>, 0))

\* removeTerminal of the script
removeTerminal(w, id) ==
  IF ~Contains(w.terminals, id) THEN w
  ELSE
    LET remaining == RemoveFirst(w.terminals, id)
        w1 == [w EXCEPT !.terminals = remaining, !.visible = @ \ {id}]
    IN  IF w.activeTerminalId # id THEN w1
        ELSE IF Len(remaining) > 0 THEN activateTerminal(w1, remaining[Len(remaining)])
        ELSE [w1 EXCEPT !.activeTerminalId = NULL]

\* TerminalList.reorderItemsToMatchGroups: the loop over state.items from
\* position i on, with the items pushed so far
RECURSIVE MatchGroupsFrom(_, _, _)
MatchGroupsFrom(w, i, newItems) ==
  IF i > Len(w.items) THEN newItems
  ELSE
    LET item == w.items[i]
        renderedIds == Range(ItemIds(newItems))
    IN  IF item.id \in renderedIds THEN MatchGroupsFrom(w, i + 1, newItems)
        ELSE IF item.groupId = NULL THEN MatchGroupsFrom(w, i + 1, Append(newItems, item))
        ELSE IF ~GroupHas(w.groups, item.groupId) THEN MatchGroupsFrom(w, i + 1, newItems)
        ELSE LET fresh == Dedup(Without(GroupGet(w.groups, item.groupId), renderedIds))
             IN  MatchGroupsFrom(w, i + 1, newItems \o ItemsOf(w.items, fresh))

reorderItemsToMatchGroups(w) == [w EXCEPT !.items = MatchGroupsFrom(w, 1, <<>>)]

\* handleReorder moving the dropped item alone, whatever its group
handleReorderItemOnly(w, sourceId, targetId, sourceGroupId, targetGroupId) ==
  LET sourceIndex == ItemIdx(w.items, sourceId)
      targetIndex == ItemIdx(w.items, targetId)
      removed == SubSeq(w.items, 1, sourceIndex - 1)
                   \o SubSeq(w.items, sourceIndex + 1, Len(w.items))
      x == [w EXCEPT !.items = SpliceIn(removed, targetIndex - 1, <<w.items[sourceIndex]>>)]
  IN  IF sourceIndex = 0 \/ targetIndex = 0 THEN w
      ELSE Send(x, ToManager("terminals-reordered", NULL, NULL, ItemIds(x.items), 0))

\* TerminalList.handleReorder, with the onReorder / onGroupReorder callbacks of
\* the script
handleReorder(w, sourceId, targetId, sourceGroupId, targetGroupId) ==
  LET sourceIndex == ItemIdx(w.items, sourceId)
      targetIndex == ItemIdx(w.items, targetId)
      notify(x) == Send(x, ToManager("terminals-reordered", NULL, NULL, ItemIds(x.items), 0))
  IN  IF sourceIndex = 0 \/ targetIndex = 0 THEN w
      ELSE IF sourceGroupId # NULL /\ sourceGroupId = targetGroupId
        THEN LET members == GroupGet(w.groups, sourceGroupId)
                 sourceIdx == IndexOf(members, sourceId)
                 targetIdx == IndexOf(members, targetId)
                 moved == SpliceIn(RemoveFirst(members, sourceId), targetIdx - 1, <<sourceId>>)
             IN  IF GroupHas(w.groups, sourceGroupId) /\ sourceIdx > 0 /\ targetIdx > 0
                   THEN Send(reorderItemsToMatchGroups(
                               [w EXCEPT !.groups = GroupSet(@, sourceGroupId, moved)]),
                             ToManager("group-reordered", NULL, sourceGroupId, moved, 0))
                   ELSE notify(w)
      ELSE IF sourceGroupId # NULL
        THEN IF ~GroupHas(w.groups, sourceGroupId) THEN notify(w)
             ELSE LET groupItems == SelectSeq(w.items, LAMBDA it : it.groupId = sourceGroupId)
                      others == SelectSeq(w.items, LAMBDA it : it.groupId # sourceGroupId)
                      at == ItemIdx(others, targetId)
                  IN  notify([w EXCEPT !.items =
                                IF at > 0 THEN SpliceIn(others, at - 1, groupItems)
                                          ELSE others \o groupItems])
      ELSE LET removed == SubSeq(w.items, 1, sourceIndex - 1)
                            \o SubSeq(w.items, sourceIndex + 1, Len(w.items))
           IN  notify([w EXCEPT !.items =
                         SpliceIn(removed, targetIndex - 1, <<w.items[sourceIndex]>>)])

\* The onSelect callback of the script
onSelect(w, id) ==
  Send(activateTerminal(setSelected(w, id), id),
       ToManager("terminal-selected", id, NULL, <<>>, 0))

\* TerminalList.handleItemClick, the Ctrl/Cmd branch
handleItemCtrlClick(w, id) ==
  [w EXCEPT !.selectedTerminalIds = IF id \in @ THEN @ \ {id} ELSE @ \cup {id},
            !.focusedTerminalId = NULL]

\* TerminalList.handleItemClick, the plain-click branch
handleItemClick(w, id) ==
  LET clickedGroup == ItemGroup(w.items, id)
  IN  IF /\ clickedGroup # NULL
         /\ w.listActiveId # NULL
         /\ ItemGroup(w.items, w.listActiveId) = clickedGroup
        THEN w
        ELSE onSelect([w EXCEPT !.selectedTerminalIds = {id},
                                !.listActiveId = id,
                                !.focusedTerminalId = NULL], id)

\* Re-layout when the active terminal is in group g (group-created,
\* split-terminal, join-terminal)
RelayoutIfActiveIn(w, g) ==
  IF w.activeTerminalId # NULL /\ getTerminalGroupId(w, w.activeTerminalId) = g
    THEN activateTerminal(w, w.activeTerminalId)
    ELSE w

\* The "message" listener of the script
handleExtensionMessage(w, m) ==
  CASE m.type = "add-tab" ->
         LET w1 == [w EXCEPT !.terminals = IF Contains(@, m.id) THEN @ ELSE Append(@, m.id)]
             w2 == addTerminal(w1, [id |-> m.id, groupId |-> m.g], m.pos)
         IN  IF m.arg = 1 THEN setSelected(activateTerminal(w2, m.id), m.id) ELSE w2
    [] m.type = "remove-tab" -> listRemoveTerminal(removeTerminal(w, m.id), m.id)
    [] m.type = "activate-tab" -> setSelected(activateTerminal(w, m.id), m.id)
    [] m.type = "focus-terminal" ->
         IF w.activeTerminalId # NULL /\ Contains(w.terminals, w.activeTerminalId)
           THEN setFocused(w, w.activeTerminalId)
           ELSE w
    [] m.type = "group-created" -> RelayoutIfActiveIn(updateGroup(w, m.g, m.ids), m.g)
    [] m.type = "group-destroyed" ->
         LET wasInDestroyedGroup ==
               /\ w.activeTerminalId # NULL
               /\ Contains(GroupGet(w.groups, m.g), w.activeTerminalId)
             w1 == removeGroup(w, m.g)
         IN  IF wasInDestroyedGroup THEN activateTerminal(w1, w1.activeTerminalId) ELSE w1
    [] m.type = "split-terminal" -> RelayoutIfActiveIn(setTerminalGroup(w, m.id, m.g), m.g)
    [] m.type = "unsplit-terminal" ->
         LET w1 == setTerminalGroup(w, m.id, NULL)
         IN  IF w1.activeTerminalId # NULL THEN activateTerminal(w1, w1.activeTerminalId)
             ELSE w1
    [] m.type = "join-terminal" -> RelayoutIfActiveIn(setTerminalGroup(w, m.id, m.g), m.g)
    [] m.type = "reorder-terminals" -> reorderItems(w, m.ids)
    [] OTHER -> w

-----------------------------------------------------------------------------
(* Initial states: the extension has been activated on a stored snapshot   *)
(* (the constructor has run loadPersistedState), the panel script has run  *)
(* to its end and posted panel-ready.                                      *)

PersistedGroupId == MaxPersisted + 1

\* an id that was live when the snapshot's activeTerminalId was set and is not
\* among its terminals
DeadId == MaxPersisted + 2

FirstFreshId == MaxPersisted + 3

\* the widths the divider can be dropped at, besides the default
ListWidths == {DefaultListWidth + 20}

\* The snapshots the runs start from: sessions 1..k in order list order with
\* ordinals 1..k, either no group or one group of the consecutive sessions a..b;
\* the selected id is the first session (a member of the group or standalone,
\* by the choice of a..b) or an id that is no longer live, and null only when
\* there is no session
SnapshotOf(k, a, b, active) ==
  [terminals |-> [i \in 1..k |->
                    [id |-> i, index |-> i,
                     groupId |-> IF a <= i /\ i <= b THEN PersistedGroupId ELSE NULL]],
   groups |-> IF a < b THEN <<[id |-> PersistedGroupId, terminals |-> [i \in 1..(b - a + 1) |-> a + i - 1]]>>
                       ELSE <<>>,
   activeTerminalId |-> active,
   listWidth |-> DefaultListWidth]

Snapshots ==
  {SnapshotOf(k, ab[1], ab[2], active) :
     k \in 0..MaxPersisted,
     ab \in {<<0, 0>>} \cup {x \in (1..MaxPersisted) \X (1..MaxPersisted) : x[1] < x[2]},
     active \in {NULL, 1, DeadId}}

WellFormed(snap) ==
  LET k == Len(snap.terminals)
  IN  /\ \A i \in 1..Len(snap.groups) : \A j \in 1..Len(snap.groups[i].terminals) :
             snap.groups[i].terminals[j] <= k
      /\ snap.activeTerminalId \in (1..k) \cup {DeadId} \cup (IF k = 0 THEN {NULL} ELSE {})

PanelReady == Msg("panel-ready", NULL, NULL, <<>>, 0, NULL)

EmptyWebview ==
  [terminals |-> <<>>, groups |-> <<>>, activeTerminalId |-> NULL, visible |-> {},
   items |-> <<>>, selectedTerminalIds |-> {}, focusedTerminalId |-> NULL,
   listActiveId |-> NULL, raf |-> <<>>, out |-> <<>>]

\* hist records what the claims need of the past:
\*   selectCleared  the last display operation was a select operation and the
\*                  focused id was not null before it
\*   spawnFailed    a spawnPty call has failed
\*   split          on: the last user or environment event was a split request
\*                  made while the display had no message and no animation
\*                  frame pending; then selected, focused and mgrActive are
\*                  the display's selection and focus and the manager's
\*                  selected id at that moment
\*   drag           on: the last step was the drop of item source on item target
\*   life           readySent: the ids whose terminal-ready the display has posted
\*                  marked: the ids whose terminal-ready the manager has handled
\*                  while the session was live
\*                  lastSent: per id, the highest chunk posted as pty-data
\*                  timedOut: the ids whose readiness timer has destroyed them
NoSplit == [on |-> FALSE, selected |-> {}, focused |-> NULL, mgrActive |-> NULL]

NoDrag == [on |-> FALSE, source |-> NULL, target |-> NULL]

NoLife == [readySent |-> {}, marked |-> {}, lastSent |-> EmptyMap, timedOut |-> {}]

NoHist ==
  [selectCleared |-> FALSE, spawnFailed |-> FALSE, split |-> NoSplit, drag |-> NoDrag,
   life |-> NoLife]

\* new BooTTYPanelViewProvider(): no view, not ready, nothing queued.  sent is
\* the sequence of the webview.postMessage calls made so far, posted the
\* number of postMessage calls the provider has received.
NewProvider ==
  [view |-> FALSE, visible |-> FALSE, isReady |-> FALSE, messageQueue |-> <<>>,
   sent |-> <<>>, posted |-> 0]

\* createFileCache(ttlMs, maxSize): an empty Map, kept as the sequence of its
\* entries in insertion order; now is the value of Date.now()
createFileCache(ttlMs, maxSize) ==
  [ttlMs |-> ttlMs, maxSize |-> maxSize, now |-> 0, cache |-> <<>>]

\* the manager after loadPersistedState and the page before its script has
\* posted panel-ready
InitPanel(snaps, budget) ==
  /\ \E snap \in snaps : mgr = loadPersistedState(snap, FirstFreshId)
  /\ toWebview = <<>>
  /\ wv = EmptyWebview
  /\ toManager = <<PanelReady>>
  /\ isReady = FALSE
  /\ ops = budget
  /\ hist = NoHist

InitFrom(snaps, budget) ==
  /\ InitPanel(snaps, budget)
  /\ provider = NewProvider
  /\ fileCache = createFileCache(CacheTtl, MaxCacheSize)

Init == InitFrom({snap \in Snapshots : WellFormed(snap)}, MaxOps)

-----------------------------------------------------------------------------
(* Actions.                                                                *)

\* the manager has run a handler to its end: its posts go to the provider
ManagerDone(c) ==
  /\ mgr' = [c EXCEPT !.post = <<>>]
  /\ toWebview' = toWebview \o c.post
  /\ UNCHANGED <<provider, fileCache>>

\* the display has run a handler to its end: its posts go to the manager
DisplayDoneWith(w, selectCleared, split, drag) ==
  /\ wv' = [w EXCEPT !.out = <<>>]
  /\ toManager' = toManager \o w.out
  /\ hist' = [hist EXCEPT !.selectCleared = selectCleared, !.split = split,
                          !.drag = drag]
  /\ UNCHANGED <<provider, fileCache>>

DisplayDone(w, selectCleared, split) == DisplayDoneWith(w, selectCleared, split, NoDrag)

\* ops is the number of user and environment events the run may still take
UserEvent ==
  /\ ops > 0
  /\ ops' = ops - 1

SpawnOutcomes(c) ==
  {[oks |-> oks, ok |-> ok] : oks \in [1..Len(c.persistedTerminals) -> BOOLEAN], ok \in BOOLEAN}

\* the spawn outcomes the handler of m reads
SpawnsRead(c, m) ==
  IF m.type = "panel-ready" THEN SpawnOutcomes(c)
  ELSE LET none == [i \in 1..Len(c.persistedTerminals) |-> TRUE]
       IN  IF m.type \in {"new-tab-requested", "split-requested"}
             THEN {[oks |-> none, ok |-> ok] : ok \in BOOLEAN}
             ELSE {[oks |-> none, ok |-> TRUE]}

\* lastSent after a handler of the manager that has posted posts
LastSentAfter(last, posts) ==
  LET data == SelectSeq(posts, LAMBDA p : p.type = "pty-data")
      ids == {data[i].id : i \in 1..Len(data)}
  IN  [id \in DOMAIN last \cup ids |->
         LET all == {data[i].arg : i \in {j \in 1..Len(data) : data[j].id = id}}
                      \cup {MapGet(last, id)}
         IN  CHOOSE x \in all : \A y \in all : y <= x]

\* life after the manager, in state c0, has handled message m and ended in c
LifeAfter(life, c0, m, c) ==
  [life EXCEPT
     !.marked = IF m.type = "terminal-ready" /\ m.id \in DOMAIN c0.terminals
                  THEN @ \cup {m.id} ELSE @,
     !.lastSent = LastSentAfter(@, c.post)]

\* onDidReceiveMessage of the provider and handlePanelMessage of the manager
ManagerReceive ==
  /\ toManager # <<>>
  /\ LET m == Head(toManager)
     IN  \E spawn \in SpawnsRead(mgr, m) :
           LET c == handlePanelMessage(mgr, m, spawn)
           IN  /\ mgr' = [c EXCEPT !.post = <<>>]
               /\ toWebview' = toWebview \o c.post
               /\ isReady' = (isReady \/ m.type = "panel-ready")
               /\ hist' = IF m.type # "panel-ready"
                            THEN [hist EXCEPT !.spawnFailed = @ \/ ~spawn.ok,
                                              !.drag = NoDrag,
                                              !.life = LifeAfter(@, mgr, m, c)]
                          ELSE [hist EXCEPT
                                  !.drag = NoDrag,
                                  !.spawnFailed =
                                     \/ @
                                     \/ \E i \in 1..Len(mgr.persistedTerminals) : ~spawn.oks[i]
                                     \/ c.nextId # mgr.nextId /\ ~spawn.ok]
  /\ toManager' = Tail(toManager)
  /\ UNCHANGED <<wv, ops, provider, fileCache>>

\* a command of extension.ts that creates a panel terminal
NewTerminalCommand ==
  /\ UserEvent
  /\ \E ok \in BOOLEAN :
       /\ ManagerDone(createPanelTerminal(mgr, ok))
       /\ hist' = [hist EXCEPT !.spawnFailed = @ \/ ~ok, !.split = NoSplit,
                               !.drag = NoDrag]
  /\ UNCHANGED <<wv, toManager, isReady>>

\* the pty of a terminal exits or fails, or its readiness timer fires: each
\* ends in destroyTerminal(id)
PtyExit(id) ==
  /\ UserEvent
  /\ id \in DOMAIN mgr.terminals
  /\ ManagerDone(destroyTerminal(mgr, id))
  /\ hist' = [hist EXCEPT !.split = NoSplit, !.drag = NoDrag]
  /\ UNCHANGED <<wv, toManager, isReady>>

\* A callback of the manager (of a process or of a timer) has run to its end
\* in state c.  The display's handling of a posted message and the callbacks
\* of the manager touch different state, so the runs in which the display has
\* handled what was posted before the next callback runs stand for all.
CallbackDone(c, timedOut) ==
  /\ ~isReady \/ (toWebview = <<>> /\ wv.raf = <<>>)
  /\ ManagerDone(c)
  /\ hist' = [hist EXCEPT !.life.lastSent = LastSentAfter(@, c.post),
                          !.life.timedOut = @ \cup timedOut]
  /\ UNCHANGED <<wv, toManager, isReady, ops>>

\* the chunks the processes have delivered so far
RECURSIVE Emitted(_, _)
Emitted(ptys, ids) ==
  IF ids = {} THEN 0
  ELSE LET id == CHOOSE x \in ids : TRUE
       IN  ptys[id].emitted + Emitted(ptys, ids \ {id})

\* the process of id delivers its next chunk: the onData callback of spawnPty
PtyEmits(id) ==
  /\ id \in DOMAIN mgr.ptyService
  /\ ~mgr.ptyService[id].exited
  /\ Emitted(mgr.ptyService, DOMAIN mgr.ptyService) < MaxChunks
  /\ CallbackDone(handlePtyData([mgr EXCEPT !.ptyService[id].emitted = @ + 1],
                                id, mgr.ptyService[id].emitted + 1), {})

\* the process of id exits: the onExit callback of spawnPty
PtyExits(id) ==
  /\ id \in DOMAIN mgr.ptyService
  /\ ~mgr.ptyService[id].exited
  /\ CallbackDone(handlePtyExit([mgr EXCEPT !.ptyService[id].exited = TRUE], id), {})

\* the process of id fails, or its read fails as the process has gone: the
\* onError callback of spawnPty
PtyErrors(id) ==
  /\ id \in DOMAIN mgr.ptyService
  /\ CallbackDone(handlePtyError(mgr, id), {})

\* READY_TIMEOUT_MS has elapsed for a timer that has not been cleared.  The
\* instance of the closure is the one the map holds, or held when the session
\* was destroyed; it is ready once handleTerminalReady has marked it.
ReadyTimeout(id) ==
  /\ id \in mgr.readyTimers
  /\ LET ready == IF id \in DOMAIN mgr.terminals THEN mgr.terminals[id].ready
                                                  ELSE id \in hist.life.marked
     IN  CallbackDone(readyTimeoutCallback(mgr, id, ready),
                      IF ready THEN {} ELSE {id})

\* EXIT_CLOSE_DELAY_MS has elapsed after the exit of the process of id
ExitGrace(id) ==
  /\ id \in mgr.exitTimers
  /\ CallbackDone(exitCloseCallback(mgr, id), {})

\* the nested requestAnimationFrame callback of the display's add-tab handler
\* posts terminal-ready for the terminal it has created
TerminalReadyFrame(id) ==
  /\ Contains(wv.terminals, id)
  /\ id \notin hist.life.readySent
  /\ toManager' = Append(toManager, ToManager("terminal-ready", id, NULL, <<>>, 0))
  /\ hist' = [hist EXCEPT !.life.readySent = @ \cup {id}]
  /\ UNCHANGED <<mgr, toWebview, wv, isReady, ops, provider, fileCache>>

\* a select operation of the display list: setSelected for an activation of
\* the extension
IsSelectMessage(m) == m.type = "activate-tab" \/ (m.type = "add-tab" /\ m.arg = 1)

\* the provider hands the next posted message to the display
DisplayReceive ==
  /\ isReady
  /\ toWebview # <<>>
  /\ Len(wv.raf) < MaxRaf
  /\ LET m == Head(toWebview)
     IN  DisplayDone(handleExtensionMessage(wv, m),
                     IsSelectMessage(m) /\ wv.focusedTerminalId # NULL, hist.split)
  /\ toWebview' = Tail(toWebview)
  /\ UNCHANGED <<mgr, isReady, ops>>

\* the animation frame of the oldest pending activation
AnimationFrame ==
  /\ wv.raf # <<>>
  /\ DisplayDone(activateCallback([wv EXCEPT !.raf = Tail(@)], Head(wv.raf)), FALSE,
                 hist.split)
  /\ UNCHANGED <<mgr, toWebview, isReady, ops>>

\* A user event of the display.  The extension host is taken to handle a
\* message of the display before the user's next event in the display; the
\* display still sees the manager's answers arbitrarily late (DisplayReceive),
\* so every order of the manager's handlers and every order of the display's
\* handlers and events stays reachable.
DisplayEventWith(w, selectCleared, split) ==
  /\ UserEvent
  /\ toManager = <<>>
  /\ DisplayDone(w, selectCleared, split)
  /\ UNCHANGED <<mgr, toWebview, isReady>>

DisplayEvent(w, selectCleared) == DisplayEventWith(w, selectCleared, NoSplit)

ItemIdSet == Range(ItemIds(wv.items))

ClickItem(id) ==
  /\ id \in ItemIdSet
  /\ Len(wv.raf) < MaxRaf
  /\ DisplayEvent(handleItemClick(wv, id),
                  handleItemClick(wv, id) # wv /\ wv.focusedTerminalId # NULL)

CtrlClickItem(id) ==
  /\ id \in ItemIdSet
  /\ DisplayEvent(handleItemCtrlClick(wv, id), FALSE)

\* mousedown in a visible pane
PaneMouseDown(id) ==
  /\ id \in wv.visible
  /\ DisplayEvent(setFocused(wv, id), FALSE)

\* the window loses focus
Blur == DisplayEvent(setFocused(wv, NULL), FALSE)

Request(m) == DisplayEvent(Send(wv, m), FALSE)

\* the hover button and the context menu entry of an item, and the keyboard
\* shortcut on the active terminal
RequestSplit(id) ==
  /\ id \in ItemIdSet \/ (id # NULL /\ id = wv.activeTerminalId)
  /\ DisplayEventWith(Send(wv, ToManager("split-requested", id, NULL, <<>>, 0)), FALSE,
                      IF toWebview = <<>> /\ wv.raf = <<>>
                        THEN [on |-> TRUE,
                              selected |-> wv.selectedTerminalIds,
                              focused |-> wv.focusedTerminalId,
                              mgrActive |-> mgr.activeTerminalId]
                        ELSE NoSplit)

RequestClose(id) ==
  /\ id \in ItemIdSet
  /\ Request(ToManager("tab-close-requested", id, NULL, <<>>, 0))

\* context menu: Unsplit is offered for a terminal a group lists
RequestUnsplit(id) ==
  /\ id \in ItemIdSet
  /\ Contains(wv.terminals, id)
  /\ getTerminalGroupId(wv, id) # NULL
  /\ Request(ToManager("unsplit-requested", id, NULL, <<>>, 0))

\* context menu: Join is offered for a terminal no group lists, one entry per group
RequestJoin(id, g) ==
  /\ id \in ItemIdSet
  /\ Contains(wv.terminals, id)
  /\ getTerminalGroupId(wv, id) = NULL
  /\ g \in GroupIds(wv.groups)
  /\ Request(ToManager("join-requested", id, g, <<>>, 0))

\* context menu on one of several selected items: "Group N Terminals"
RequestGroupSelected ==
  /\ Cardinality(wv.selectedTerminalIds) > 1
  /\ wv.selectedTerminalIds \cap ItemIdSet # {}
  /\ Request(ToManager("group-selected-requested", NULL, NULL,
                       Only(ItemIds(wv.items), wv.selectedTerminalIds), 0))

\* the "+" button of the list
RequestNewTerminal == Request(ToManager("new-tab-requested", NULL, NULL, <<>>, 0))

\* an item is dropped on another
DragItem(sourceId, targetId) ==
  /\ sourceId \in ItemIdSet
  /\ targetId \in ItemIdSet
  /\ sourceId # targetId
  /\ UserEvent
  /\ toManager = <<>>
  /\ DisplayDoneWith(handleReorder(wv, sourceId, targetId,
                                   ItemGroup(wv.items, sourceId),
                                   ItemGroup(wv.items, targetId)),
                     FALSE, NoSplit,
                     [on |-> TRUE, source |-> sourceId, target |-> targetId])
  /\ UNCHANGED <<mgr, toWebview, isReady>>

\* the divider is dropped at a width
DragDivider(width) == Request(ToManager("list-width-changed", NULL, NULL, <<>>, width))

Next ==
  \/ ManagerReceive
  \/ DisplayReceive
  \/ AnimationFrame
  \/ NewTerminalCommand
  \/ \E id \in DOMAIN mgr.terminals : PtyExit(id)
  \/ \E id \in ItemIdSet : ClickItem(id)
  \/ \E id \in ItemIdSet : CtrlClickItem(id)
  \/ \E id \in wv.visible : PaneMouseDown(id)
  \/ Blur
  \/ \E id \in ItemIdSet \cup {wv.activeTerminalId} : RequestSplit(id)
  \/ \E id \in ItemIdSet : RequestClose(id)
  \/ \E id \in ItemIdSet : RequestUnsplit(id)
  \/ \E id \in ItemIdSet, g \in GroupIds(wv.groups) : RequestJoin(id, g)
  \/ RequestGroupSelected
  \/ RequestNewTerminal
  \/ \E sourceId \in ItemIdSet, targetId \in ItemIdSet : DragItem(sourceId, targetId)
  \/ \E width \in ListWidths : DragDivider(width)

Spec == Init /\ [][Next]_vars

\* The runs in which the user only splits, unsplits, joins and drags, from the
\* snapshot of three sessions in one group: one more event than Spec allows
InitGrouping == InitFrom({SnapshotOf(MaxPersisted, 1, MaxPersisted, 1)}, MaxGroupingOps)

NextGrouping ==
  \/ ManagerReceive
  \/ DisplayReceive
  \/ AnimationFrame
  \/ \E id \in ItemIdSet : RequestSplit(id)
  \/ \E id \in ItemIdSet : RequestUnsplit(id)
  \/ \E id \in ItemIdSet, g \in GroupIds(wv.groups) : RequestJoin(id, g)
  \/ \E sourceId \in ItemIdSet, targetId \in ItemIdSet : DragItem(sourceId, targetId)

SpecGrouping == InitGrouping /\ [][NextGrouping]_vars

\* The runs of the sessions' life cycle: readiness, output, exit and the
\* timers.  From the empty snapshot, with sessions created before and after the
\* ready signal and closed by the user; from the snapshot of two sessions in one
\* group, without user events.
InitLife ==
  \/ InitFrom({SnapshotOf(0, 0, 0, NULL)}, MaxLifeOps)
  \/ InitFrom({SnapshotOf(2, 1, 2, 1)}, 0)

NextLife ==
  \/ ManagerReceive
  \/ DisplayReceive
  \/ AnimationFrame
  \/ NewTerminalCommand
  \/ \E id \in ItemIdSet : RequestClose(id)
  \/ \E id \in ItemIdSet : TerminalReadyFrame(id)
  \/ \E id \in DOMAIN mgr.ptyService : PtyEmits(id)
  \/ \E id \in DOMAIN mgr.ptyService : PtyExits(id)
  \/ \E id \in DOMAIN mgr.ptyService : PtyErrors(id)
  \/ \E id \in mgr.readyTimers : ReadyTimeout(id)
  \/ \E id \in mgr.exitTimers : ExitGrace(id)

SpecLife == InitLife /\ [][NextLife]_vars

\* The panel's webview is discarded and resolved again (the view is moved, or
\* closed and reopened): onDidDispose and resolveWebviewView reset _isReady,
\* the new page starts empty and posts panel-ready when its script has run.
\* What the old page had posted and what had been delivered to it are gone
\* with it; what the provider still holds in its queue stays queued.
WebviewReload ==
  /\ UserEvent
  /\ wv' = EmptyWebview
  /\ toManager' = <<PanelReady>>
  /\ toWebview' = IF isReady THEN <<>> ELSE toWebview
  /\ isReady' = FALSE
  /\ hist' = [hist EXCEPT !.split = NoSplit, !.drag = NoDrag]
  /\ UNCHANGED <<mgr, provider, fileCache>>

\* The runs in which the webview is resolved more than once: from nothing
\* persisted or from a persisted group of two, the user creates terminals,
\* processes exit and the webview is reloaded.
InitReopen == InitFrom({SnapshotOf(0, 0, 0, NULL), SnapshotOf(2, 1, 2, 1)}, MaxReopenOps)

NextReopen ==
  \/ ManagerReceive
  \/ DisplayReceive
  \/ AnimationFrame
  \/ NewTerminalCommand
  \/ WebviewReload
  \/ \E id \in DOMAIN mgr.terminals : PtyExit(id)

SpecReopen == InitReopen /\ [][NextReopen]_vars

-----------------------------------------------------------------------------
(* Steps the claims speak of.                                              *)

LiveIds(c) == DOMAIN c.terminals

\* the messages the manager posted in this step
Posted == SubSeq(toWebview', Len(toWebview) + 1, Len(toWebview'))

\* the manager handles the request at the head of its queue
Handles(types) ==
  /\ toManager # <<>>
  /\ Head(toManager).type \in types
  /\ toManager' = Tail(toManager)
  /\ wv' = wv

ReadyStep == Handles({"panel-ready"})

\* the manager was constructed from the stored snapshot and has handled nothing
FreshManager == mgr = loadPersistedState(mgr.workspaceState, FirstFreshId)

PersistedIds(c) == {c.persistedTerminals[i].id : i \in 1..Len(c.persistedTerminals)}

-----------------------------------------------------------------------------
(* Claims.                                                                 *)

\* C1: in every reachable state of the manager every group of the group table
\* has at least 2 members.
C1_EveryGroupHasTwoMembers ==
  \A i \in 1..Len(mgr.groups) : Len(mgr.groups[i].terminals) >= 2

\* C2: in every reachable state of the manager each session id is in the
\* member list of at most one group, and at most once in that list.  Stated for
\* the runs in which no spawn has failed: they refute it already.
C2_MemberOfOneGroupOnce ==
  ~hist.spawnFailed =>
  \A i, j \in 1..Len(mgr.groups) :
    \A a \in 1..Len(mgr.groups[i].terminals), b \in 1..Len(mgr.groups[j].terminals) :
      mgr.groups[i].terminals[a] = mgr.groups[j].terminals[b] => (i = j /\ a = b)

\* the members of every group are consecutive in the order list, in member order
GroupsContiguous(c) ==
  \A i \in 1..Len(c.groups) :
    LET members == c.groups[i].terminals
    IN  \E k \in 0..(Len(c.terminalOrder) - Len(members)) :
          SubSeq(c.terminalOrder, k + 1, k + Len(members)) = members

\* C3: every mutation the manager applies (reorder, split, unsplit, join,
\* group-selected, close) leaves the members of each group consecutive in the
\* order list, in the group's member order.
C3_MutationsKeepGroupsContiguous ==
  [][(mgr' # mgr /\ isReady /\ toWebview = <<>> /\ GroupsContiguous(mgr))
       => GroupsContiguous(mgr')]_vars

\* the ids the display shows as selected or active
SelectedOrActive ==
  (wv.selectedTerminalIds \cup {wv.activeTerminalId, wv.listActiveId}) \ {NULL}

\* C4: in every reachable state of the display the focused id is null, or is the
\* selected/active terminal, or is a member of the group of the selected/active
\* terminal.
C4_FocusedIsSelectedOrInItsGroup ==
  \/ wv.focusedTerminalId = NULL
  \/ wv.focusedTerminalId \in SelectedOrActive
  \/ \E i \in 1..Len(wv.groups) :
       /\ Contains(wv.groups[i].terminals, wv.focusedTerminalId)
       /\ Range(wv.groups[i].terminals) \cap SelectedOrActive # {}

\* a select operation of the display list acts in this step: setSelected for an
\* activation of the extension, or a plain click that selects
SelectStep ==
  \/ /\ isReady
     /\ toWebview # <<>>
     /\ IsSelectMessage(Head(toWebview))
     /\ toWebview' = Tail(toWebview)
  \/ /\ ops' = ops - 1
     /\ wv' # wv
     /\ \E id \in ItemIdSet :
          /\ handleItemClick(wv, id) # wv
          /\ wv' = [handleItemClick(wv, id) EXCEPT !.out = <<>>]

C6_KillingSoleSessionCreatesReplacement ==
  [][(Cardinality(LiveIds(mgr)) = 1 /\ LiveIds(mgr) \cap LiveIds(mgr') = {})
       => (Cardinality(LiveIds(mgr')) = 1 /\ mgr'.activeTerminalId \in LiveIds(mgr'))]_vars

RequestTypes ==
  {"tab-activated", "tab-close-requested", "new-tab-requested", "terminal-selected",
   "split-requested", "unsplit-requested", "join-requested", "terminals-reordered",
   "group-reordered", "list-width-changed", "group-selected-requested"}

\* C7: after the manager has handled a request that changed the order list, the
\* group table, the selected id or the list width, the stored snapshot is the
\* snapshot of the in-memory state.
C7_SnapshotFollowsEveryChange ==
  [][(/\ Handles(RequestTypes)
      /\ \/ mgr'.terminalOrder # mgr.terminalOrder
         \/ mgr'.groups # mgr.groups
         \/ mgr'.activeTerminalId # mgr.activeTerminalId
         \/ mgr'.listWidth # mgr.listWidth)
       => mgr'.workspaceState = Snapshot(mgr')]_vars

\* the ready signal is handled by a manager fresh from its snapshot and every
\* persisted session is re-created
RoundTripStep ==
  /\ ReadyStep
  /\ FreshManager
  /\ PersistedIds(mgr) \subseteq LiveIds(mgr')

\* same ordered ids (with ordinals and group ids) and same group table
SameStructure(c, snap) ==
  /\ Snapshot(c).terminals = snap.terminals
  /\ c.groups = snap.groups

ActivationPosted(id) == \E i \in 1..Len(Posted) : Posted[i] = ActivateTab(id)

\* C8: the round trip reproduces the ordered ids and the group structure of
\* every saved snapshot and emits the activation of its selected id, if it has one.
C8_RoundTripOfEverySnapshot ==
  [][RoundTripStep =>
       /\ SameStructure(mgr', mgr.workspaceState)
       /\ mgr.workspaceState.activeTerminalId # NULL
            => ActivationPosted(mgr.workspaceState.activeTerminalId)]_vars


\* C9: every group-created message of the hydration lists only re-created
\* sessions, at least 2 of them, and so does every group the manager keeps.
C9_HydrationStripsFailedMembers ==
  [][ReadyStep =>
       /\ \A i \in 1..Len(Posted) :
            Posted[i].type = "group-created" =>
              /\ Range(Posted[i].ids) \subseteq LiveIds(mgr')
              /\ Len(Posted[i].ids) >= 2
       /\ \A i \in 1..Len(mgr'.groups) :
            /\ Range(mgr'.groups[i].terminals) \subseteq LiveIds(mgr')
            /\ Len(mgr'.groups[i].terminals) >= 2]_vars

\* C10: when the replay of the ready handling leaves no panel session,
\* exactly one session exists afterwards and it is the selected one.
C10_EmptyReplayCreatesDefault ==
  [][(ReadyStep /\ LiveIds(mgr) = {} /\ PersistedIds(mgr) \cap LiveIds(mgr') = {})
       => (Cardinality(LiveIds(mgr')) = 1 /\ mgr'.activeTerminalId \in LiveIds(mgr'))]_vars

\* the manager handles the request at the head of its queue with the spawn
\* outcomes spawn
HandledWith(spawn) ==
  /\ toManager # <<>>
  /\ toManager' = Tail(toManager)
  /\ wv' = wv
  /\ mgr' = [handlePanelMessage(mgr, Head(toManager), spawn) EXCEPT !.post = <<>>]
  /\ toWebview' = toWebview \o handlePanelMessage(mgr, Head(toManager), spawn).post

\* the persisted descriptors whose spawn succeeds under oks, in saved order
Spawned(list, oks) ==
  LET idx == SelectSeq([i \in 1..Len(list) |-> i], LAMBDA i : oks[i])
  IN  [j \in 1..Len(idx) |-> list[idx[j]]]

\* C11: when spawns of persisted descriptors fail during hydration, every
\* descriptor whose spawn succeeds is re-created under its saved id and ordinal,
\* in saved order; a failed descriptor leaves no session in the registry or the
\* order list, and no ordinal stays allocated without a live session.
C11_FailedSpawnDoesNotBlockHydration ==
  [][\A spawn \in SpawnOutcomes(mgr) :
       (ReadyStep /\ HandledWith(spawn)) =>
         LET list == mgr.persistedTerminals
             made == Spawned(list, spawn.oks)
         IN  /\ \A j \in 1..Len(made) :
                  /\ made[j].id \in LiveIds(mgr')
                  /\ mgr'.terminals[made[j].id].index = made[j].index
             /\ Only(mgr'.terminalOrder, PersistedIds(mgr)) = [j \in 1..Len(made) |-> made[j].id]
             /\ \A i \in 1..Len(list) :
                  ~spawn.oks[i] => /\ list[i].id \notin LiveIds(mgr')
                                   /\ ~Contains(mgr'.terminalOrder, list[i].id)
             /\ mgr'.usedIndices = {mgr'.terminals[id].index : id \in LiveIds(mgr')}]_vars

\* right after a hydration in which one persisted spawn failed and a later one
\* succeeded
C11_Witness ==
  /\ isReady
  /\ wv = EmptyWebview
  /\ mgr.persistedTerminals = <<>>
  /\ \E i, j \in 1..Len(mgr.workspaceState.terminals) :
       /\ i < j
       /\ mgr.workspaceState.terminals[i].id \notin LiveIds(mgr)
       /\ mgr.workspaceState.terminals[j].id \in LiveIds(mgr)

\* the messages of sequence s whose type is t
OfType(s, t) == SelectSeq(s, LAMBDA m : m.type = t)

\* C12: the messages emitted while handling the ready signal are ordered:
\* hydrate-state first, then one add-tab per re-created session in saved order,
\* then the group-created messages (none before the last add-tab), and last
\* activate-tab followed by focus-terminal for the previously selected session.
C12_HydrationMessagesOrdered ==
  [][\A spawn \in SpawnOutcomes(mgr) :
       (ReadyStep /\ HandledWith(spawn)) =>
         LET made == Spawned(mgr.persistedTerminals, spawn.oks)
             saved == mgr.activeTerminalId
             n == Len(Posted)
         IN  /\ n >= 1 /\ Posted[1] = HydrateState(mgr.listWidth)
             /\ \A i \in 2..n : Posted[i].type # "hydrate-state"
             /\ SelectSeq(Posted, LAMBDA m : m.type = "add-tab" /\ m.id \in PersistedIds(mgr))
                  = [j \in 1..Len(made) |-> AddTab(made[j].id, FALSE, made[j].groupId, NULL)]
             /\ \A i, j \in 1..n :
                  (Posted[i].type = "group-created" /\ Posted[j].type = "add-tab") => j < i
             /\ \A i \in 1..n :
                  Posted[i].type \in {"activate-tab", "focus-terminal"} => i >= n - 1
             /\ (\E j \in 1..Len(made) : made[j].id = saved) =>
                  /\ n >= 3
                  /\ Posted[n - 1] = ActivateTab(saved)
                  /\ Posted[n] = FocusTerminal]_vars

\* the session registry, the allocated ordinals, the group table, the
\* session-to-group map, the order list and the selected id
SessionState(c) ==
  <<c.terminals, c.usedIndices, c.groups, c.terminalToGroup, c.terminalOrder,
    c.activeTerminalId>>

\* C13: when the spawn fails while the manager handles a create request or a
\* split request, its state afterwards is its state before the request.
C13_FailedSpawnLeavesStateUnchanged ==
  [][\A spawn \in SpawnsRead(mgr, IF toManager # <<>> THEN Head(toManager) ELSE PanelReady) :
       (/\ Handles({"new-tab-requested", "split-requested"})
        /\ HandledWith(spawn)
        /\ ~spawn.ok)
         => SessionState(mgr') = SessionState(mgr)]_vars

\* The runs of NextGrouping from the snapshot of a group of two sessions and one
\* standalone session
InitJoining == InitFrom({SnapshotOf(MaxPersisted, 1, 2, 1)}, MaxGroupingOps)

SpecJoining == InitJoining /\ [][NextGrouping]_vars

\* the request at the head of the manager's queue names nothing it can act on:
\* a join into a group that does not exist, a split of an unknown session, an
\* unsplit of a session that is in no group
InvalidRequest ==
  /\ toManager # <<>>
  /\ LET m == Head(toManager)
     IN  \/ m.type = "join-requested" /\ ~GroupHas(mgr.groups, m.g)
         \/ m.type = "split-requested" /\ m.id \notin LiveIds(mgr)
         \/ m.type = "unsplit-requested" /\ MapGet(mgr.terminalToGroup, m.id) = NULL

\* C14: handling a join into a group that does not exist, a split of an unknown
\* session or an unsplit of a session that is in no group changes nothing of the
\* manager's state and emits no message.  Stated for the runs in which no spawn
\* has failed: they refute it already.
C14_InvalidRequestIsNoOp ==
  [][(/\ ~hist.spawnFailed
      /\ InvalidRequest
      /\ Handles({"join-requested", "split-requested", "unsplit-requested"}))
       => (SessionState(mgr') = SessionState(mgr) /\ Posted = <<>>)]_vars

\* y is the element right after x in sequence s
RightAfter(s, x, y) == \E k \in 1..(Len(s) - 1) : s[k] = x /\ s[k + 1] = y

\* C15: handling a split request on a live session S with a successful spawn
\* creates exactly one new session N, right after S in the order list and right
\* after S in the member list of S's group; for a standalone S that group is a
\* new one with the members S, N.  Stated for the runs in which no spawn has
\* failed and for an order list that lists exactly the live sessions: they
\* refute it already.
C15_SplitInsertsRightAfterSource ==
  [][(/\ ~hist.spawnFailed
      /\ Handles({"split-requested"})
      /\ Head(toManager).id \in LiveIds(mgr)
      /\ Range(mgr.terminalOrder) = LiveIds(mgr)
      /\ Len(mgr.terminalOrder) = Cardinality(LiveIds(mgr))
      /\ LiveIds(mgr') # LiveIds(mgr))
       => LET S == Head(toManager).id
              had == MapGet(mgr.terminalToGroup, S)
              g == MapGet(mgr'.terminalToGroup, S)
          IN  \E N \in LiveIds(mgr') \ LiveIds(mgr) :
                /\ LiveIds(mgr') = LiveIds(mgr) \cup {N}
                /\ RightAfter(mgr'.terminalOrder, S, N)
                /\ RemoveFirst(mgr'.terminalOrder, N) = mgr.terminalOrder
                /\ g # NULL
                /\ MapGet(mgr'.terminalToGroup, N) = g
                /\ GroupHas(mgr'.groups, g)
                /\ RightAfter(GroupGet(mgr'.groups, g), S, N)
                /\ had # NULL =>
                     /\ g = had
                     /\ RemoveFirst(GroupGet(mgr'.groups, g), N) = GroupGet(mgr.groups, g)
                /\ had = NULL =>
                     /\ ~GroupHas(mgr.groups, g)
                     /\ GroupGet(mgr'.groups, g) = <<S, N>>]_vars

\* C16: a split leaves selection and focus unchanged: once the manager has
\* handled the split request and the display has handled its answers and run
\* their animation frames, the manager's selected id and the display's selected
\* and focused terminal are what they were when the split was requested.
\* Stated for the splits requested while a pane had the focus and its terminal
\* or the active terminal of its group was the one selected: they refute it
\* already.
C16_SplitKeepsSelectionAndFocus ==
  (/\ hist.split.on
   /\ hist.split.focused # NULL
   /\ hist.split.selected = {wv.activeTerminalId}
   /\ toManager = <<>> /\ toWebview = <<>> /\ wv.raf = <<>>) =>
    /\ mgr.activeTerminalId = hist.split.mgrActive
    /\ wv.selectedTerminalIds = hist.split.selected
    /\ wv.focusedTerminalId = hist.split.focused

\* C17: handling an unsplit request on a session T that is a member of group G
\* removes T from G and places T in the order list right after the last
\* remaining member of G, the order of the other sessions unchanged; a G left
\* with one member is deleted and that member is standalone as well.
C17_UnsplitPlacesAfterGroup ==
  [][(/\ Handles({"unsplit-requested"})
      /\ MapGet(mgr.terminalToGroup, Head(toManager).id) # NULL
      /\ GroupHas(mgr.groups, MapGet(mgr.terminalToGroup, Head(toManager).id))
      /\ Head(toManager).id \in
           Range(GroupGet(mgr.groups, MapGet(mgr.terminalToGroup, Head(toManager).id)))
      /\ Len(GroupGet(mgr.groups, MapGet(mgr.terminalToGroup, Head(toManager).id))) >= 2)
       => LET T == Head(toManager).id
              G == MapGet(mgr.terminalToGroup, T)
              rest == RemoveFirst(GroupGet(mgr.groups, G), T)
          IN  /\ MapGet(mgr'.terminalToGroup, T) = NULL
              /\ RightAfter(mgr'.terminalOrder, rest[Len(rest)], T)
              /\ RemoveFirst(mgr'.terminalOrder, T) = RemoveFirst(mgr.terminalOrder, T)
              /\ Len(rest) >= 2 =>
                   /\ GroupHas(mgr'.groups, G)
                   /\ GroupGet(mgr'.groups, G) = rest
              /\ Len(rest) = 1 =>
                   /\ ~GroupHas(mgr'.groups, G)
                   /\ MapGet(mgr'.terminalToGroup, rest[1]) = NULL]_vars

\* C18: handling a join request for a live standalone session C into an
\* existing group G appends C as the last member of G and moves C in the order
\* list to right after G's previous last member, the relative order of all
\* other sessions unchanged.
C18_JoinAppendsAfterLastMember ==
  [][(/\ Handles({"join-requested"})
      /\ Head(toManager).id \in LiveIds(mgr)
      /\ MapGet(mgr.terminalToGroup, Head(toManager).id) = NULL
      /\ GroupHas(mgr.groups, Head(toManager).g)
      /\ Len(GroupGet(mgr.groups, Head(toManager).g)) >= 1)
       => LET C == Head(toManager).id
              G == Head(toManager).g
              before == GroupGet(mgr.groups, G)
          IN  /\ GroupGet(mgr'.groups, G) = Append(before, C)
              /\ MapGet(mgr'.terminalToGroup, C) = G
              /\ RightAfter(mgr'.terminalOrder, before[Len(before)], C)
              /\ RemoveFirst(mgr'.terminalOrder, C) = RemoveFirst(mgr.terminalOrder, C)]_vars

\* the items that carry the group of X, in list order
BlockOf(items, X) ==
  ItemIds(SelectSeq(items, LAMBDA it : it.groupId = ItemGroup(items, X)))

\* the step has moved the items of X's group, in their order, as one block to
\* the position of target, left the other items in their order, and has sent
\* the resulting flat list to the extension
MovedAsBlock(X, target) ==
  LET ids == ItemIds(wv.items)
      block == BlockOf(wv.items, X)
      moved == ItemIds(wv'.items)
      n == Len(block)
  IN  /\ \E k \in 1..Len(moved) :
           /\ k + n <= Len(moved)
           /\ SubSeq(moved, k, k + n - 1) = block
           /\ moved[k + n] = target
      /\ Without(moved, Range(block)) = Without(ids, Range(block))
      /\ Len(moved) = Len(ids)
      /\ toManager' = toManager \o <<ToManager("terminals-reordered", NULL, NULL, moved, 0)>>

C20_ReorderKeepsMembership ==
  [][(/\ ~hist.spawnFailed
      /\ Handles({"terminals-reordered", "group-reordered"}))
       => /\ GroupIds(mgr'.groups) = GroupIds(mgr.groups)
          /\ \A g \in GroupIds(mgr.groups) :
               Range(GroupGet(mgr'.groups, g)) = Range(GroupGet(mgr.groups, g))
          /\ mgr'.terminalToGroup = mgr.terminalToGroup]_vars

-----------------------------------------------------------------------------
(* The life cycle of a session.                                            *)

\* the ids of the sessions that were created and are destroyed, and an id no
\* session ever had
GoneIds == (DOMAIN mgr.ptyService \cup {DeadId}) \ DOMAIN mgr.terminals

\* C21: destroying an id that is unknown or already destroyed changes no state
\* and emits no message, whether it comes from a close request, a PTY error or
\* the exit-grace timer; a second destroy of a live session adds nothing to the
\* first; no process is killed twice and every live session's ordinal is
\* still allocated.
C21_DestroyIsIdempotent ==
  /\ \A id \in GoneIds :
       /\ destroyTerminal(mgr, id) = mgr
       /\ handlePtyError(mgr, id) = mgr
       /\ exitCloseCallback(mgr, id) = [mgr EXCEPT !.exitTimers = @ \ {id}]
       /\ handlePanelMessage(mgr, ToManager("tab-close-requested", id, NULL, <<>>, 0),
                             [oks |-> <<>>, ok |-> TRUE]) = mgr
  /\ \A id \in DOMAIN mgr.terminals :
       LET once == destroyTerminal(mgr, id)
       IN  destroyTerminal(once, id) = once
  /\ \A id \in DOMAIN mgr.ptyService : mgr.ptyService[id].kills <= 1
  /\ \A id \in DOMAIN mgr.terminals : mgr.terminals[id].index \in mgr.usedIndices

\* a session was destroyed after its process had exited and before the grace
\* delay elapsed: the timer's destroy is still to come
C21_Witness ==
  \E id \in mgr.exitTimers :
    /\ id \notin DOMAIN mgr.terminals
    /\ mgr.ptyService[id].kills = 1

\* the sessions this step has created, and those it has destroyed
Created == DOMAIN mgr'.terminals \ DOMAIN mgr.terminals

Destroyed == DOMAIN mgr.terminals \ DOMAIN mgr'.terminals

\* C22: the ordinal the allocator returns for the allocated set of a state is
\* the smallest positive integer not in the set; a step that creates a session
\* by create or split gives it that ordinal and adds it to the set, and a step
\* that destroys a session removes exactly its ordinal from the set.
C22_AllocatesSmallestFreeOrdinal ==
  [][LET used == mgr.usedIndices
         n == NextIndex(used)
     IN  /\ n >= 1
         /\ n \notin used
         /\ \A k \in 1..(n - 1) : k \in used
         /\ ~ReadyStep =>
              /\ \A id \in Created :
                   /\ mgr'.terminals[id].index = n
                   /\ mgr'.usedIndices = used \cup {n}
              /\ \A id \in Destroyed :
                   mgr'.usedIndices = used \ {mgr.terminals[id].index}]_vars

\* a session created after a lower ordinal was released holds ordinal 1 while
\* ordinal 2 is allocated
C22_Witness ==
  \E id \in DOMAIN mgr.terminals :
    /\ id >= FirstFreshId
    /\ mgr.terminals[id].index = 1
    /\ 2 \in mgr.usedIndices

\* the ordinal a session created in state c by createPanelTerminal gets
OrdinalOfNext(c) == createPanelTerminal(c, TRUE).terminals[c.nextId].index

\* C23: a step destroys a session with ordinal N; a session created right
\* after it gets ordinal N.  Stated for the runs in which no spawn has failed:
\* they refute it already.
C23_DestroyedOrdinalIsReused ==
  [][\A id \in Destroyed :
       (~ReadyStep /\ ~hist.spawnFailed)
         => OrdinalOfNext(mgr') = mgr.terminals[id].index]_vars

\* C23, amended: a step destroys a session with ordinal N and every ordinal
\* below N stays allocated; a session created right after it gets ordinal N.
C23_LowestDestroyedOrdinalIsReused ==
  [][\A id \in Destroyed :
       LET N == mgr.terminals[id].index
       IN  (~ReadyStep /\ \A k \in 1..(N - 1) : k \in mgr'.usedIndices)
             => OrdinalOfNext(mgr') = N]_vars

\* the second of three hydrated sessions was destroyed and a session created
\* after it holds its ordinal 2, ordinal 1 being allocated throughout
C23_Witness ==
  /\ ~hist.spawnFailed
  /\ {1, 3} \subseteq DOMAIN mgr.terminals
  /\ 2 \notin DOMAIN mgr.terminals
  /\ \E id \in DOMAIN mgr.terminals :
       /\ id >= FirstFreshId
       /\ mgr.terminals[id].index = 2

\* C24: no two live sessions have the same ordinal, and until the ready
\* signal is handled no live session has the ordinal of a persisted session
\* that is still to be hydrated.
C24_OrdinalsAreDistinct ==
  /\ \A a, b \in DOMAIN mgr.terminals :
       a # b => mgr.terminals[a].index # mgr.terminals[b].index
  /\ ~isReady =>
       \A id \in DOMAIN mgr.terminals :
         \A i \in 1..Len(mgr.persistedTerminals) :
           mgr.terminals[id].index # mgr.persistedTerminals[i].index

\* a session created before the ready signal is live next to the hydrated
\* first session
C24_Witness ==
  /\ isReady
  /\ Len(mgr.terminalOrder) >= 2
  /\ mgr.terminalOrder[1] >= FirstFreshId
  /\ 1 \in DOMAIN mgr.terminals
  /\ mgr.terminalOrder[1] \in DOMAIN mgr.terminals

\* C25: a session whose terminal-ready message the manager has handled is
\* never destroyed by its readiness timer: the timer of a ready session is
\* cleared, and no session is both marked ready and timed out.
C25_ReadySessionNeverTimesOut ==
  /\ hist.life.marked \cap hist.life.timedOut = {}
  /\ \A id \in DOMAIN mgr.terminals :
       /\ id \in hist.life.marked => mgr.terminals[id].ready
       /\ mgr.terminals[id].ready => mgr.terminals[id].readyTimeout = "none"

\* a session marked ready is live after the readiness timer of another
\* session has destroyed that one
C25_Witness ==
  /\ hist.life.marked \cap DOMAIN mgr.terminals # {}
  /\ hist.life.timedOut # {}

\* C26: a live session that is not ready has its readiness timer pending; the
\* timer acts only on a live session that is not ready, and destroys it; once
\* it has acted, or once the session is destroyed for another reason, no timer
\* is pending for the session.
C26_TimeoutDestroysUnreadySession ==
  [][/\ \A id \in DOMAIN mgr'.terminals :
          ~mgr'.terminals[id].ready => id \in mgr'.readyTimers
     /\ \A id \in hist'.life.timedOut \ hist.life.timedOut :
          /\ id \in DOMAIN mgr.terminals
          /\ ~mgr.terminals[id].ready
          /\ id \notin DOMAIN mgr'.terminals
          /\ \E i \in 1..Len(Posted) : Posted[i] = RemoveTab(id)
     /\ \A id \in mgr'.readyTimers : id \in DOMAIN mgr'.terminals
     /\ hist'.life.timedOut \cap mgr'.readyTimers = {}]_vars

\* the readiness timer has destroyed one session, and another session was
\* destroyed for another reason
C26_Witness ==
  /\ hist.life.timedOut # {}
  /\ \E id \in DOMAIN mgr.ptyService :
       id \notin DOMAIN mgr.terminals /\ id \notin hist.life.timedOut

\* the chunks the pty-data messages of posts carry for id, in posting order
PtyDataOf(posts, id) ==
  LET data == SelectSeq(posts, LAMBDA p : p.type = "pty-data" /\ p.id = id)
  IN  [i \in 1..Len(data) |-> data[i].arg]

\* s lists chunks in the order of arrival, all of them later than chunk last
IncreasingAfter(s, last) ==
  \A i \in 1..Len(s) : s[i] > (IF i = 1 THEN last ELSE s[i - 1])

\* C27: the chunks of a process are numbered in the order its data callback
\* delivers them.  The chunks a step posts for a session as pty-data are in
\* arrival order and later than every chunk posted for it before, so no chunk
\* is sent twice; the step that marks the session ready posts exactly the
\* buffered chunks, in buffer order; and the buffer holds chunks in arrival
\* order, each later than every chunk already posted.
C27_ChunksSentInArrivalOrder ==
  [][\A id \in DOMAIN mgr.ptyService :
       LET sent == PtyDataOf(Posted, id)
       IN  /\ IncreasingAfter(sent, MapGet(hist.life.lastSent, id))
           /\ (/\ Handles({"terminal-ready"})
               /\ Head(toManager).id = id
               /\ id \in DOMAIN mgr.terminals)
                => sent = mgr.terminals[id].dataQueue
           /\ id \in DOMAIN mgr'.terminals
                => IncreasingAfter(mgr'.terminals[id].dataQueue,
                                   MapGet(hist'.life.lastSent, id))]_vars

\* the manager has flushed two buffered chunks of a session behind the
\* settings, theme and config it sends when the session is marked ready
C27_Witness ==
  \E id \in DOMAIN mgr.terminals :
    \E i \in 1..Len(toWebview) :
      /\ i + 2 <= Len(toWebview)
      /\ toWebview[i] = UpdateConfig
      /\ toWebview[i + 1] = PtyData(id, 1)
      /\ toWebview[i + 2] = PtyData(id, 2)

\* C28: the buffer of a session never holds more than MAX_DATA_QUEUE_SIZE
\* chunks and is empty whenever the session is ready; a chunk that arrives
\* while the session is not ready and its buffer is at capacity leaves the
\* buffer as it is and is not sent.
C28_BufferIsCapped ==
  [][/\ \A id \in DOMAIN mgr'.terminals :
          /\ Len(mgr'.terminals[id].dataQueue) <= MAX_DATA_QUEUE_SIZE
          /\ mgr'.terminals[id].ready => mgr'.terminals[id].dataQueue = <<>>
     /\ \A id \in DOMAIN mgr.terminals :
          (/\ mgr'.ptyService[id].emitted = mgr.ptyService[id].emitted + 1
           /\ ~mgr.terminals[id].ready
           /\ Len(mgr.terminals[id].dataQueue) = MAX_DATA_QUEUE_SIZE)
            => /\ mgr'.terminals[id] = mgr.terminals[id]
               /\ Posted = <<>>]_vars

\* a chunk was discarded: the process has delivered one chunk more than the
\* full buffer of its session holds
C28_Witness ==
  \E id \in DOMAIN mgr.terminals :
    /\ ~mgr.terminals[id].ready
    /\ Len(mgr.terminals[id].dataQueue) = MAX_DATA_QUEUE_SIZE
    /\ mgr.ptyService[id].emitted = MAX_DATA_QUEUE_SIZE + 1

\* the exit callback of the process of id runs in this step
ExitsNow(id) ==
  /\ id \in DOMAIN mgr.ptyService
  /\ ~mgr.ptyService[id].exited
  /\ mgr'.ptyService[id].exited

\* where a session stands: in the registry, in the order list, in its group
Standing(c, id) ==
  <<id \in DOMAIN c.terminals, IndexOf(c.terminalOrder, id), MapGet(c.terminalToGroup, id),
    IF MapGet(c.terminalToGroup, id) # NULL /\ GroupHas(c.groups, MapGet(c.terminalToGroup, id))
      THEN GroupGet(c.groups, MapGet(c.terminalToGroup, id)) ELSE <<>>>>

\* C29: the step in which the process of a live session exits posts the exit
\* notice for the session and no removal message, and leaves the session where
\* it stands; while the grace timer is pending the session stays where it
\* stands; the step in which the grace delay elapses destroys it.
C29_ExitNoticeThenGraceThenDestroy ==
  [][\A id \in DOMAIN mgr.terminals :
       /\ ExitsNow(id) =>
            /\ \E i \in 1..Len(Posted) : Posted[i] = PtyExitMsg(id)
            /\ \A i \in 1..Len(Posted) : Posted[i] # RemoveTab(id)
            /\ Standing(mgr', id) = Standing(mgr, id)
       /\ (id \in mgr.exitTimers /\ id \in mgr'.exitTimers) =>
            Standing(mgr', id) = Standing(mgr, id)
       /\ (id \in mgr.exitTimers /\ id \notin mgr'.exitTimers) =>
            id \notin DOMAIN mgr'.terminals]_vars

\* id is visible in the display list of w: selected, or a member of the group
\* of a selected terminal
VisibleInList(w, id) ==
  \/ id \in w.selectedTerminalIds
  \/ \E i \in 1..Len(w.groups) :
       /\ Contains(w.groups[i].terminals, id)
       /\ Range(w.groups[i].terminals) \cap w.selectedTerminalIds # {}

\* C30: a focus operation of the display list for an id that is not visible
\* leaves the focused id as it was: a step that moves the focus to an id moves
\* it to an id that is visible before or after the step.
C30_FocusOnHiddenIdIsNoOp ==
  [][(wv'.focusedTerminalId # wv.focusedTerminalId /\ wv'.focusedTerminalId # NULL)
       => \/ VisibleInList(wv, wv'.focusedTerminalId)
          \/ VisibleInList(wv', wv'.focusedTerminalId)]_vars

-----------------------------------------------------------------------------
(* Selection, lock-step of manager and display, and the durable snapshot.  *)

\* a plain click on a list item changes the selection in this step
ListClickStep ==
  /\ ops' = ops - 1
  /\ wv' # wv
  /\ \E id \in ItemIdSet :
       /\ handleItemClick(wv, id) # wv
       /\ wv' = [handleItemClick(wv, id) EXCEPT !.out = <<>>]

\* C31: after a list click that changes the selection the focused id is null,
\* and it is still null once the animation frame the click has requested has
\* run: without a click in a pane or a focus-terminal message no terminal is
\* focused.
C31_ListClickGivesNoFocus ==
  [][(ListClickStep /\ wv.raf = <<>> /\ wv'.raf # <<>>)
       => /\ wv'.focusedTerminalId = NULL
          /\ activateCallback([wv' EXCEPT !.raf = Tail(@)],
                              Head(wv'.raf)).focusedTerminalId = NULL]_vars

\* no message is in flight between manager and display, and no animation
\* frame of the display is pending
Quiescent == isReady /\ toWebview = <<>> /\ toManager = <<>> /\ wv.raf = <<>>

\* C32: whenever no message is in flight in either direction, the item order
\* of the display list is the manager's order list and the group id of each
\* item is the manager's session-to-group assignment.  Stated for the runs in
\* which no spawn has failed: they refute it already.
C32_DisplayInLockStep ==
  (Quiescent /\ ~hist.spawnFailed)
    => /\ ItemIds(wv.items) = mgr.terminalOrder
       /\ \A i \in 1..Len(wv.items) :
            wv.items[i].groupId = MapGet(mgr.terminalToGroup, wv.items[i].id)

\* C33: once the ready signal has been handled, the manager's order list
\* holds each live panel session once and no other id.  Stated for the runs in
\* which no spawn has failed: they refute it already.
C33_OrderListIsTheLiveSessions ==
  (isReady /\ ~hist.spawnFailed)
    => /\ Range(mgr.terminalOrder) = DOMAIN mgr.terminals
       /\ Len(mgr.terminalOrder) = Cardinality(DOMAIN mgr.terminals)

\* C34: once the ready signal has been handled, a session is mapped to group G
\* exactly if G's member list holds it, and every member of every group is a
\* live panel session.  Stated for the runs in which no spawn has failed: they
\* refute it already.
C34_GroupMapMatchesMembers ==
  (isReady /\ ~hist.spawnFailed)
    => /\ \A id \in DOMAIN mgr.terminalToGroup :
            /\ GroupHas(mgr.groups, mgr.terminalToGroup[id])
            /\ Contains(GroupGet(mgr.groups, mgr.terminalToGroup[id]), id)
       /\ \A i \in 1..Len(mgr.groups) :
            \A k \in 1..Len(mgr.groups[i].terminals) :
              LET id == mgr.groups[i].terminals[k]
              IN  /\ id \in DOMAIN mgr.terminals
                  /\ MapGet(mgr.terminalToGroup, id) = mgr.groups[i].id

\* C35: once the ready signal has been handled, the manager's selected id is
\* null or the id of a live panel session.  Stated for the runs in which no
\* spawn has failed: they refute it already.
C35_SelectedIdIsLive ==
  (isReady /\ ~hist.spawnFailed)
    => mgr.activeTerminalId \in DOMAIN mgr.terminals \cup {NULL}

\* the position in order list s of the first session that is in set, 0 if
\* there is none
FirstOf(s, set) ==
  IF \E i \in 1..Len(s) : s[i] \in set
    THEN CHOOSE i \in 1..Len(s) : s[i] \in set /\ \A j \in 1..(i - 1) : s[j] \notin set
    ELSE 0

\* ids lists the members of group members, each once
IsPermutationOf(ids, members) ==
  /\ Len(ids) = Len(members)
  /\ Range(ids) = Range(members)

\* C36: handling group-reordered(G, ids) with ids a permutation of G's members
\* makes ids the member order of G, writes the members into the order list in
\* that order from the position of G's first member on, and leaves every
\* session outside G at its position.  Stated for the runs in which no spawn
\* has failed: they refute it already.
C36_GroupReorderRewritesInPlace ==
  [][(/\ Handles({"group-reordered"})
      /\ ~hist.spawnFailed
      /\ GroupHas(mgr.groups, Head(toManager).g)
      /\ IsPermutationOf(Head(toManager).ids, GroupGet(mgr.groups, Head(toManager).g)))
       => LET G == Head(toManager).g
              ids == Head(toManager).ids
              first == FirstOf(mgr.terminalOrder, Range(ids))
          IN  /\ GroupGet(mgr'.groups, G) = ids
              /\ first > 0
              /\ first + Len(ids) - 1 <= Len(mgr'.terminalOrder)
              /\ \A k \in 1..Len(ids) : mgr'.terminalOrder[first + k - 1] = ids[k]
              /\ \A x \in Range(mgr.terminalOrder) \ Range(ids) :
                   IndexOf(mgr'.terminalOrder, x) = IndexOf(mgr.terminalOrder, x)]_vars

\* C38: until the ready signal has been handled, the stored snapshot holds a
\* descriptor for every persisted session the manager was constructed with.
C38_EarlySaveKeepsPersistedSessions ==
  ~isReady =>
    \A i \in 1..Len(mgr.persistedTerminals) :
      \E j \in 1..Len(mgr.workspaceState.terminals) :
        mgr.workspaceState.terminals[j].id = mgr.persistedTerminals[i].id

-----------------------------------------------------------------------------
(* The ready signal handled more than once.                                *)

\* the ids that occur more than once in a sequence of ids
Repeated(ids) == {ids[i] : i \in {k \in 1..Len(ids) : \E j \in 1..Len(ids) : j # k /\ ids[j] = ids[k]}}

\* C39: handling the ready signal, the first time or again after the webview
\* was resolved anew, spawns no session id a second time and enters no id
\* into the order list twice, and it creates a fresh default session only
\* when no panel session is live and none was re-created from the snapshot.
C39_RepeatedReadyRecreatesNothing ==
  [][ReadyStep
       => /\ \A id \in DOMAIN mgr'.ptyService : mgr'.ptyService[id].spawns <= 1
          /\ Repeated(mgr'.terminalOrder) = {}
          /\ mgr'.nextId # mgr.nextId
               => /\ DOMAIN mgr.terminals = {}
                  /\ DOMAIN mgr'.terminals \subseteq {mgr.nextId}]_vars

\* the ready signal has been handled a second time while the two sessions
\* re-created at the first are live: the reloaded page has received all that
\* the second handling posted, and it shows no session
C39_Witness ==
  /\ isReady
  /\ toManager = <<>>
  /\ toWebview = <<>>
  /\ wv.raf = <<>>
  /\ {1, 2} \subseteq DOMAIN mgr.terminals
  /\ mgr.ptyService[1].spawns = 1
  /\ wv.items = <<>>

-----------------------------------------------------------------------------
(* The panel provider on its own: src/src/panel-view-provider.ts.          *)

\* _flushMessageQueue: nothing without a view or before panel-ready; else
\* every queued message is posted to the webview, in queue order, and the
\* queue is emptied
flushMessageQueueKeepingQueue(p) ==
  IF ~p.view \/ ~p.isReady THEN p
  ELSE [p EXCEPT !.sent = @ \o p.messageQueue]

flushMessageQueue(p) ==
  IF ~p.view \/ ~p.isReady THEN p
  ELSE [p EXCEPT !.sent = @ \o p.messageQueue, !.messageQueue = <<>>]

\* postMessage: to the webview when ready and visible, else to the queue
postMessage(p, message) ==
  IF p.isReady /\ p.view /\ p.visible
    THEN [p EXCEPT !.sent = Append(@, message)]
    ELSE [p EXCEPT !.messageQueue = Append(@, message)]

\* resolveWebviewView: the view is kept and _isReady reset
resolveWebviewView(p, visible) == [p EXCEPT !.view = TRUE, !.visible = visible, !.isReady = FALSE]

\* the onDidChangeVisibility listener
onDidChangeVisibility(p, visible) ==
  LET q == [p EXCEPT !.visible = visible]
  IN  IF q.visible /\ q.isReady THEN flushMessageQueue(q) ELSE q

\* the onDidDispose listener
onDidDispose(p) == [p EXCEPT !.view = FALSE, !.visible = FALSE, !.isReady = FALSE]

\* the onDidReceiveMessage listener on panel-ready
onPanelReady(p) == flushMessageQueue([p EXCEPT !.isReady = TRUE])

ProviderDone(p) ==
  /\ provider' = p
  /\ UNCHANGED <<mgr, toWebview, wv, toManager, isReady, ops, hist, fileCache>>

\* the manager posts its next message
ProviderPost ==
  /\ provider.posted < MaxPosts
  /\ ProviderDone([postMessage(provider, provider.posted + 1) EXCEPT !.posted = @ + 1])

\* VS Code opens the panel view, shown or in the background
ProviderResolve ==
  /\ ~provider.view
  /\ \E visible \in BOOLEAN : ProviderDone(resolveWebviewView(provider, visible))

\* the user hides or shows the panel
ProviderVisibility ==
  /\ provider.view
  /\ ProviderDone(onDidChangeVisibility(provider, ~provider.visible))

\* the view is disposed
ProviderDispose ==
  /\ provider.view
  /\ ProviderDone(onDidDispose(provider))

\* the page of the view posts panel-ready
ProviderReady ==
  /\ provider.view
  /\ ~provider.isReady
  /\ ProviderDone(onPanelReady(provider))

InitProvider == InitFrom({SnapshotOf(0, 0, 0, NULL)}, 0)

NextProvider ==
  \/ ProviderPost
  \/ ProviderResolve
  \/ ProviderVisibility
  \/ ProviderDispose
  \/ ProviderReady

SpecProvider == InitProvider /\ [][NextProvider]_vars

\* the messages posted so far, in the order of their posting
PostedSoFar == [i \in 1..provider.posted |-> i]

\* C37: the messages handed to the webview followed by the messages still
\* queued are the messages posted, in the order of their posting and each
\* once, and whenever the view is ready and visible nothing is left queued;
\* this across every sequence of resolve, hide, show, ready and dispose.
C37_ProviderDeliversInOrderOnce ==
  /\ provider.sent \o provider.messageQueue = PostedSoFar
  /\ (provider.view /\ provider.isReady /\ provider.visible) => provider.messageQueue = <<>>

\* messages were queued and flushed, the view is ready and hidden, and more
\* messages wait in the queue behind those delivered
C37_Witness ==
  /\ provider.view /\ provider.isReady /\ ~provider.visible
  /\ Len(provider.sent) >= 2
  /\ Len(provider.messageQueue) >= 2

-----------------------------------------------------------------------------
(* The file-existence cache: createFileCache of src/unnamed/part_004.      *)

\* the paths of a run: JavaScript strings, the empty string among them
Paths == {"", "a", "b"}

\* Map.has, and the position of a key among the entries
CacheHas(f, path) == \E i \in 1..Len(f.cache) : f.cache[i].path = path

CachePos(f, path) == CHOOSE i \in 1..Len(f.cache) : f.cache[i].path = path

\* Map.delete: the entry of the key is taken out, the others keep their order
CacheDelete(f, path) ==
  [f EXCEPT !.cache = SelectSeq(@, LAMBDA e : e.path # path)]

\* Map.set of a key that is not in the Map: the entry goes to the end
CacheAppend(f, path, entry) ==
  [f EXCEPT !.cache = Append(@, [path |-> path, exists |-> entry.exists,
                                 timestamp |-> entry.timestamp])]

\* the truthiness of a JavaScript string: every string but the empty one
Truthy(path) == path # ""

\* get(path): the state after the call and the value returned, "undefined"
\* for undefined.  An expired entry is deleted; an entry read is moved to the
\* end with its timestamp kept.
cacheGet(f, path) ==
  IF ~CacheHas(f, path) THEN [f |-> f, ret |-> "undefined"]
  ELSE LET entry == f.cache[CachePos(f, path)]
       IN  IF f.now - entry.timestamp > f.ttlMs
             THEN [f |-> CacheDelete(f, path), ret |-> "undefined"]
             ELSE [f |-> CacheAppend(CacheDelete(f, path), path, entry),
                   ret |-> entry.exists]

\* set(path, exists): a key that is present is deleted first; else, at
\* capacity, the first key of the Map is deleted if it is truthy; then the
\* entry is set with the time of the call
cacheSet(f, path, exists) ==
  LET f1 == IF CacheHas(f, path) THEN CacheDelete(f, path)
            ELSE IF Len(f.cache) >= f.maxSize
              THEN IF f.cache # <<>> /\ Truthy(f.cache[1].path)
                     THEN CacheDelete(f, f.cache[1].path)
                     ELSE f
              ELSE f
  IN  CacheAppend(f1, path, [exists |-> exists, timestamp |-> f.now])

\* clear()
cacheClear(f) == [f EXCEPT !.cache = <<>>]

\* the calls of a cache touch the cache alone
CacheFrame == UNCHANGED <<mgr, toWebview, wv, toManager, isReady, ops, hist, provider>>

CacheGet ==
  /\ \E path \in Paths : fileCache' = cacheGet(fileCache, path).f
  /\ CacheFrame

CacheSet ==
  /\ \E path \in Paths, exists \in BOOLEAN : fileCache' = cacheSet(fileCache, path, exists)
  /\ CacheFrame

CacheClear ==
  /\ fileCache' = cacheClear(fileCache)
  /\ CacheFrame

\* Date.now() advances
CacheTick ==
  /\ fileCache.now < MaxTime
  /\ fileCache' = [fileCache EXCEPT !.now = @ + 1]
  /\ CacheFrame

\* a cache of any capacity up to MaxCacheSize
InitCache ==
  /\ InitPanel({SnapshotOf(0, 0, 0, NULL)}, 0)
  /\ provider = NewProvider
  /\ \E maxSize \in 0..MaxCacheSize : fileCache = createFileCache(CacheTtl, maxSize)

NextCache == CacheGet \/ CacheSet \/ CacheClear \/ CacheTick

SpecCache == InitCache /\ [][NextCache]_vars

\* C40: after any sequence of get and set calls the cache holds at most
\* maxSize entries.  Stated for the caches of capacity one or more: they
\* refute it already.
C40_CacheHoldsAtMostMaxSize ==
  fileCache.maxSize >= 1 => Len(fileCache.cache) <= fileCache.maxSize

=============================================================================
